---- MODULE Spec2Model ----
(***************************************************************************)
(* icarogw: the hierarchical likelihood evaluators of likelihood.py and    *)
(* the population wrappers of wrappers.py they drive.                      *)
(*                                                                         *)
(* One call of log_likelihood() is a sequence of steps, one action each;   *)
(* the evaluator, its rate model, its injection set and its posterior      *)
(* sample set are objects whose fields persist between calls.              *)
(***************************************************************************)
EXTENDS Integers, Sequences, FiniteSets, TLC

(***************************************************************************)
(* Floating point values.  A value is a record [k, n, d]: a finite         *)
(* rational n/d (k = "fin", d > 0, lowest terms), +inf, -inf, NaN, the     *)
(* largest finite doubles +-DBL_MAX that nan_to_num produces ("pmax",      *)
(* "nmax"), or Python's None.  The operations follow IEEE-754 as numpy     *)
(* applies it: NaN propagates and compares false, inf - inf = NaN,         *)
(* 0 * inf = NaN, x / 0 = +-inf, 0 / 0 = NaN.                              *)
(***************************************************************************)
RECURSIVE GCD(_, _)
GCD(a, b) ==
    IF b = 0 THEN a ELSE GCD(b, a % b)

Abs(x) ==
    IF x < 0 THEN -x ELSE x

Rat(n, d) ==
    LET s == IF d < 0 THEN -1 ELSE 1
        g == GCD(Abs(n), Abs(d))
    IN  [k |-> "fin", n |-> (s * n) \div g, d |-> (s * d) \div g]

Fin(n) ==
    [k |-> "fin", n |-> n, d |-> 1]

PInf ==
    [k |-> "pinf", n |-> 0, d |-> 1]

NInf ==
    [k |-> "ninf", n |-> 0, d |-> 1]

NaN ==
    [k |-> "nan", n |-> 0, d |-> 1]

PMax ==
    [k |-> "pmax", n |-> 0, d |-> 1]

NMax ==
    [k |-> "nmax", n |-> 0, d |-> 1]

None ==
    [k |-> "none", n |-> 0, d |-> 1]

IsFin(a) ==
    a.k = "fin"

IsInf(a) ==
    a.k \in {"pinf", "ninf"}

isnan(a) ==
    a.k = "nan"

\* sign of a value that is not NaN: -1, 0 or 1
Sign(a) ==
    CASE a.k = "pinf" -> 1
      [] a.k = "ninf" -> -1
      [] OTHER -> IF a.n > 0 THEN 1 ELSE IF a.n < 0 THEN -1 ELSE 0

Neg(a) ==
    CASE a.k = "fin" -> Rat(-a.n, a.d)
      [] a.k = "pinf" -> NInf
      [] a.k = "ninf" -> PInf
      [] OTHER -> a

Add(a, b) ==
    CASE isnan(a) \/ isnan(b) -> NaN
      [] IsInf(a) /\ IsInf(b) -> IF a.k = b.k THEN a ELSE NaN
      [] IsInf(a) -> a
      [] IsInf(b) -> b
      [] OTHER -> Rat(a.n * b.d + b.n * a.d, a.d * b.d)

Sub(a, b) ==
    Add(a, Neg(b))

Mul(a, b) ==
    CASE isnan(a) \/ isnan(b) -> NaN
      [] IsInf(a) \/ IsInf(b) ->
            IF Sign(a) * Sign(b) = 0 THEN NaN
            ELSE IF Sign(a) * Sign(b) > 0 THEN PInf ELSE NInf
      [] OTHER -> Rat(a.n * b.n, a.d * b.d)

Div(a, b) ==
    CASE isnan(a) \/ isnan(b) -> NaN
      [] IsInf(a) /\ IsInf(b) -> NaN
      [] IsInf(a) -> IF Sign(a) * Sign(b) >= 0 THEN
                        (IF Sign(a) > 0 THEN PInf ELSE NInf)
                     ELSE (IF Sign(a) > 0 THEN NInf ELSE PInf)
      [] IsInf(b) -> Fin(0)
      [] b.n = 0 -> IF a.n = 0 THEN NaN ELSE IF a.n > 0 THEN PInf ELSE NInf
      [] OTHER -> Rat(a.n * b.d, a.d * b.n)

\* a < b; false as soon as one side is NaN
Lt(a, b) ==
    CASE isnan(a) \/ isnan(b) -> FALSE
      [] a.k = "pinf" \/ b.k = "ninf" -> FALSE
      [] a.k = "ninf" \/ b.k = "pinf" -> TRUE
      [] OTHER -> a.n * b.d < b.n * a.d

Gt(a, b) ==
    Lt(b, a)

\* a == b; false as soon as one side is NaN
Eq(a, b) ==
    ~isnan(a) /\ ~isnan(b) /\ a = b

\* floor(log2 n) of an integer n >= 1
RECURSIVE Log2(_)
Log2(n) ==
    IF n <= 1 THEN 0 ELSE 1 + Log2(n \div 2)

\* xp.log.  The finite positive values of the model are powers of two and
\* the logarithm is taken in units of ln 2, which keeps it an integer.
log(a) ==
    CASE isnan(a) -> NaN
      [] a.k = "pinf" -> PInf
      [] a.k = "ninf" -> NaN
      [] a.n < 0 -> NaN
      [] a.n = 0 -> NInf
      [] OTHER -> Fin(Log2(a.n) - Log2(a.d))

\* xp.power(x, 2.) and xp.power(x, -1.)
power(a, e) ==
    IF e = 2 THEN Mul(a, a) ELSE Div(Fin(1), a)

\* numpy.nan_to_num with its defaults
nan_to_num(a) ==
    CASE isnan(a) -> Fin(0)
      [] a.k = "pinf" -> PMax
      [] a.k = "ninf" -> NMax
      [] OTHER -> a

RECURSIVE SumSeq(_)
\* xp.sum over an array of values
SumSeq(s) ==
    IF s = <<>> THEN Fin(0) ELSE Add(Head(s), SumSeq(Tail(s)))

(***************************************************************************)
(* Bounds of the model.                                                    *)
(***************************************************************************)
\* number of events of the posterior sample set (n_ev)
NEv ==
    2

\* the rate parameter gamma ranges over 1..MaxGamma
MaxGamma ==
    2

\* the concurrent runs make at most MaxCalls calls in all
MaxCalls ==
    3

\* a behaviour of the distributions makes at most MaxEvals calls: the
\* methods and functions are pure, a call does not depend on the one before
MaxEvals ==
    1

Instances ==
    {1, 2}

Workers ==
    {1, 2}

Events ==
    1..NEv

\* the Beta shape parameters alpha_chi and beta_chi: one value that
\* spinprior_default refuses and one that it accepts
ShapeValues ==
    {1, 2}

\* the parameter vectors the sampler hands to an evaluator
Parameters ==
    [gamma : 1..MaxGamma, alpha_chi : ShapeValues, beta_chi : ShapeValues,
     sigma_t : {1}, csi_spin : {1}]

\* self.parameters after __init__: every key maps to None (0 stands for it)
NoParameters ==
    [gamma |-> 0, alpha_chi |-> 0, beta_chi |-> 0, sigma_t |-> 0, csi_spin |-> 0]

(***************************************************************************)
(* The fixed data: what the injection set and the posterior sample set     *)
(* compute from the rate model they are given.  A data set d gives every   *)
(* state of the rate model one of the outcomes below, so that all          *)
(* combinations of an injection outcome and a posterior outcome occur and  *)
(* different parameters give different weights.                            *)
(***************************************************************************)
\* attributes of the injection set that update_weights never changes
InjStatic ==
    [Tobs |-> Fin(2), ntotal |-> Fin(4 * NEv + 2)]

\* what update_weights leaves in the injection set: Neff, pseudo_rate and
\* the expected number of detections
InjOutcomes ==
    << [Neff |-> Fin(4 * NEv), pseudo_rate |-> Fin(2), Nexp |-> Fin(3)],
       [Neff |-> Fin(4),       pseudo_rate |-> Fin(1), Nexp |-> Fin(1)],
       [Neff |-> Fin(0),       pseudo_rate |-> Fin(0), Nexp |-> Fin(0)],
       [Neff |-> Fin(4 * NEv), pseudo_rate |-> Fin(0), Nexp |-> NInf],
       [Neff |-> NaN,          pseudo_rate |-> NaN,    Nexp |-> NaN],
       [Neff |-> Fin(1),       pseudo_rate |-> Fin(1), Nexp |-> Fin(1)] >>

\* Ns_array: the number of posterior samples of each event
Ns_array ==
    [i \in Events |-> Fin(40)]

\* an array over the events: first for event 1, rest for the others
EvArray(first, rest) ==
    [i \in Events |-> IF i = 1 THEN first ELSE rest]

\* what update_weights leaves in the posterior sample set: the per-event
\* effective numbers of samples and the per-event sums of weights
PEOutcomes ==
    << [neff |-> EvArray(Fin(40), Fin(40)), sum_weights |-> EvArray(Fin(2), Fin(2))],
       [neff |-> EvArray(Fin(19), Fin(20)), sum_weights |-> EvArray(Fin(1), Fin(2))],
       [neff |-> EvArray(Fin(0), Fin(20)),  sum_weights |-> EvArray(Fin(0), Fin(1))],
       [neff |-> EvArray(Fin(20), Fin(20)), sum_weights |-> EvArray(PInf, Fin(1))],
       [neff |-> EvArray(NaN, Fin(20)),     sum_weights |-> EvArray(NaN, Fin(1))] >>

DataSets ==
    0..(Len(InjOutcomes) * Len(PEOutcomes) - 1)

\* the values a constructor argument can take
NeffINJHigh ==
    Add(InjStatic.ntotal, Fin(1))

NeffINJArgs ==
    {None, NeffINJHigh}

ThrArgs ==
    {None, Fin(1)}

(***************************************************************************)
(* The population wrappers (wrappers.py) and the rate model that holds     *)
(* them.                                                                   *)
(***************************************************************************)
\* a Beta distribution that was never built
NoBeta ==
    <<0, 0>>

\* a slip: the rate is built once and kept for later parameters
rateevolution_PowerLaw_update_Once(rw, kwargs) ==
    IF rw.rate = 0 THEN [rw EXCEPT !.rate = kwargs.gamma] ELSE rw

\* rateevolution_PowerLaw.update: self.rate = powerlaw_rate(gamma)
rateevolution_PowerLaw_update(rw, kwargs) ==
    [rw EXCEPT !.rate = kwargs.gamma]

\* a slip: only alpha_chi is tested
spinprior_default_invalid_AlphaOnly(sw) ==
    sw.alpha_chi <= 1

\* the test of spinprior_default.update on the stored shape parameters
spinprior_default_invalid(sw) ==
    (sw.alpha_chi <= 1) \/ (sw.beta_chi <= 1)

\* spinprior_default.update: the four assignments, then the test, then the
\* Beta distribution; [sw, raised] gives the object left behind and whether
\* ValueError was raised
spinprior_default_update(sw, kwargs) ==
    LET s1 == [sw EXCEPT !.alpha_chi = kwargs.alpha_chi,
                         !.beta_chi = kwargs.beta_chi,
                         !.csi_spin = kwargs.csi_spin,
                         !.aligned_pdf = kwargs.sigma_t]
    IN  IF spinprior_default_invalid(s1)
        THEN [sw |-> s1, raised |-> TRUE]
        ELSE [sw |-> [s1 EXCEPT !.beta_pdf = <<s1.alpha_chi, s1.beta_chi>>],
              raised |-> FALSE]

\* the rate model as built: no sub-model has been updated yet
NewRateModel(scale_free) ==
    [scale_free |-> scale_free,
     rw |-> [rate |-> 0],
     sw |-> [alpha_chi |-> 0, beta_chi |-> 0, csi_spin |-> 0, aligned_pdf |-> 0,
             beta_pdf |-> NoBeta]]

\* rate_model.update(**params): pushes the parameters into the rate
\* wrapper and then into the spin wrapper, whose ValueError it lets through
rate_model_update(rm, kwargs) ==
    LET r1 == [rm EXCEPT !.rw = rateevolution_PowerLaw_update(rm.rw, kwargs)]
        sp == spinprior_default_update(r1.sw, kwargs)
    IN  [rm |-> [r1 EXCEPT !.sw = sp.sw], raised |-> sp.raised]

(***************************************************************************)
(* The injection set and the posterior sample set.                         *)
(***************************************************************************)
\* what the weights depend on: the rate and the distributions the rate
\* model holds when update_weights is called
WeightKey(rm) ==
    rm.rw.rate + rm.sw.beta_pdf[1] + rm.sw.beta_pdf[2] + rm.sw.aligned_pdf

InjIndex(d, rm) ==
    ((d + WeightKey(rm)) % Len(InjOutcomes)) + 1

PEIndex(d, rm) ==
    (((d \div Len(InjOutcomes)) + WeightKey(rm)) % Len(PEOutcomes)) + 1

\* the collaborators before the first update_weights
NewInjections ==
    [Neff |-> None, pseudo_rate |-> None, Nexp |-> None]

NewPosterior ==
    [neff |-> EvArray(None, None), sum_weights |-> EvArray(None, None)]

\* injections.update_weights(rate_model)
injections_update_weights(d, inj, rm) ==
    InjOutcomes[InjIndex(d, rm)]

\* injections.effective_injections_number()
effective_injections_number(inj) ==
    inj.Neff

\* injections.expected_number_detections()
expected_number_detections(inj) ==
    inj.Nexp

\* posterior_samples_dict.update_weights(rate_model)
posterior_update_weights(d, pe, rm) ==
    PEOutcomes[PEIndex(d, rm)]

\* posterior_samples_dict.get_effective_number_of_PE()
get_effective_number_of_PE(pe) ==
    pe.neff

(***************************************************************************)
(* The likelihood evaluators (likelihood.py).                              *)
(***************************************************************************)
\* the default of the constructor argument neffPE
DefaultNeffPE ==
    20

\* a slip: the variance threshold does not override neffPE and neffINJ
hierarchical_likelihood_init_KeepsGates(cls, neffPE, neffINJ, likelihood_variance_thr) ==
    [cls |-> cls,
     neffPE |-> neffPE,
     neffINJ |-> IF neffINJ = None THEN Fin(4 * NEv) ELSE neffINJ,
     likelihood_variance_thr |-> likelihood_variance_thr,
     likelihood_variance |-> None,
     parameters |-> NoParameters]

\* __init__ of hierarchical_likelihood and hierarchical_likelihood_v1
hierarchical_likelihood_init(cls, neffPE, neffINJ, likelihood_variance_thr) ==
    [cls |-> cls,
     neffPE |-> IF likelihood_variance_thr # None THEN Fin(-1) ELSE neffPE,
     neffINJ |-> IF likelihood_variance_thr # None THEN Fin(-1)
                 ELSE IF neffINJ = None THEN Fin(4 * NEv) ELSE neffINJ,
     likelihood_variance_thr |-> likelihood_variance_thr,
     likelihood_variance |-> None,
     parameters |-> NoParameters]

\* __init__ of hierarchical_likelihood_noevents: no stability settings
hierarchical_likelihood_noevents_init ==
    [cls |-> "hierarchical_likelihood_noevents",
     neffPE |-> None, neffINJ |-> None,
     likelihood_variance_thr |-> None, likelihood_variance |-> None,
     parameters |-> NoParameters]

\* the evaluator a configuration builds
NewLikelihood(cfg) ==
    IF cfg.cls = "hierarchical_likelihood_noevents"
    THEN hierarchical_likelihood_noevents_init
    ELSE hierarchical_likelihood_init(cfg.cls, cfg.neffPE, cfg.neffINJ, cfg.thr)

\* the configurations: class, constructor arguments, kind of rate model and
\* data set
Configs ==
    [cls : {"hierarchical_likelihood", "hierarchical_likelihood_v1"},
     neffPE : {Fin(DefaultNeffPE)}, neffINJ : NeffINJArgs, thr : ThrArgs,
     scale_free : BOOLEAN, d : DataSets]
    \cup
    [cls : {"hierarchical_likelihood_noevents"},
     neffPE : {None}, neffINJ : {None}, thr : {None},
     scale_free : {FALSE}, d : DataSets]

\* the local variables of a call that has not started
NoLocals ==
    [pc |-> "idle", p |-> NoParameters, Neff |-> None,
     neff_PE_ev |-> EvArray(None, None), Nexp |-> None, log_likeli |-> None,
     ret |-> None, trace |-> <<>>]

\* the value a stability rejection returns
RejectValue(cls) ==
    IF cls = "hierarchical_likelihood_v1" THEN NInf ELSE nan_to_num(NInf)

\* A call works on a bundle S: the evaluator (lik), its rate model (rm),
\* injection set (inj) and posterior sample set (pe), the data set d and the
\* call's local variables (loc).  Each step maps a bundle to a bundle.
Trace(S, name) ==
    Append(S.loc.trace, name)

Return(S, name, value) ==
    [S EXCEPT !.loc.pc = "returned", !.loc.ret = value, !.loc.trace = Trace(S, name)]

Raise(S, name) ==
    [S EXCEPT !.loc.pc = "raised", !.loc.trace = Trace(S, name)]

Goto(S, name, next) ==
    [S EXCEPT !.loc.pc = next, !.loc.trace = Trace(S, name)]

\* the sampler sets self.parameters and calls log_likelihood()
BeginCall(S, p) ==
    [S EXCEPT !.lik.parameters = p,
              !.loc = [NoLocals EXCEPT !.pc = "rate_update", !.p = p]]

\* self.rate_model.update(**{key: self.parameters[key] ...})
StepRateUpdate(S) ==
    LET r == rate_model_update(S.rm, S.lik.parameters)
        S1 == [S EXCEPT !.rm = r.rm]
    IN  IF r.raised THEN Raise(S1, "rate_update")
        ELSE Goto(S1, "rate_update", "inj_update")

\* a slip: the weights of the posterior samples are updated together with
\* those of the injections, before the gate
StepInjUpdate_WithPE(S) ==
    LET S1 == [S EXCEPT !.inj = injections_update_weights(S.d, S.inj, S.rm),
                        !.pe = posterior_update_weights(S.d, S.pe, S.rm)]
    IN  Goto(S1, "inj_update",
             IF S.lik.cls = "hierarchical_likelihood_noevents"
             THEN "combine" ELSE "inj_gate")

\* a slip: weights that exist are not recomputed
StepInjUpdate_Stale(S) ==
    LET S1 == IF S.inj = NewInjections
              THEN [S EXCEPT !.inj = injections_update_weights(S.d, S.inj, S.rm)]
              ELSE S
    IN  Goto(S1, "inj_update",
             IF S.lik.cls = "hierarchical_likelihood_noevents"
             THEN "combine" ELSE "inj_gate")

\* self.injections.update_weights(self.rate_model)
StepInjUpdate(S) ==
    LET S1 == [S EXCEPT !.inj = injections_update_weights(S.d, S.inj, S.rm)]
    IN  Goto(S1, "inj_update",
             IF S.lik.cls = "hierarchical_likelihood_noevents"
             THEN "combine" ELSE "inj_gate")

\* a slip: the comparison is reversed
InjRejects_Reversed(Neff, neffINJ) ==
    Gt(Neff, neffINJ) \/ Eq(Neff, Fin(0))

\* (Neff<self.neffINJ) | (Neff==0.)
InjRejects(Neff, neffINJ) ==
    Lt(Neff, neffINJ) \/ Eq(Neff, Fin(0))

\* a slip: the gate is evaluated and the call goes on
StepInjGate_NoReturn(S) ==
    LET Neff == effective_injections_number(S.inj)
        S1 == [S EXCEPT !.loc.Neff = Neff]
    IN  Goto(S1, "inj_gate", "pe_update")

\* Neff = effective_injections_number() and the gate on it
StepInjGate(S) ==
    LET Neff == effective_injections_number(S.inj)
        S1 == [S EXCEPT !.loc.Neff = Neff]
    IN  IF InjRejects(Neff, S.lik.neffINJ)
        THEN Return(S1, "inj_gate", RejectValue(S.lik.cls))
        ELSE Goto(S1, "inj_gate", "pe_update")

\* self.posterior_samples_dict.update_weights(self.rate_model)
StepPEUpdate(S) ==
    LET S1 == [S EXCEPT !.pe = posterior_update_weights(S.d, S.pe, S.rm)]
    IN  Goto(S1, "pe_update", "pe_gate")

\* a slip: xp.all in place of xp.any
PERejects_All(neff_PE_ev, neffPE) ==
    \A i \in Events : Lt(neff_PE_ev[i], neffPE)

\* xp.any(neff_PE_ev<self.neffPE)
PERejects(neff_PE_ev, neffPE) ==
    \E i \in Events : Lt(neff_PE_ev[i], neffPE)

\* a slip: a rejection at the gate lowers the evaluator's neffPE
StepPEGate_Relaxes(S) ==
    LET neff_PE_ev == get_effective_number_of_PE(S.pe)
        S1 == [S EXCEPT !.loc.neff_PE_ev = neff_PE_ev]
    IN  IF PERejects(neff_PE_ev, S.lik.neffPE)
        THEN Return([S1 EXCEPT !.lik.neffPE = Fin(0)], "pe_gate",
                    RejectValue(S.lik.cls))
        ELSE Goto(S1, "pe_gate", "variance")

\* neff_PE_ev = get_effective_number_of_PE() and the gate on it
StepPEGate(S) ==
    LET neff_PE_ev == get_effective_number_of_PE(S.pe)
        S1 == [S EXCEPT !.loc.neff_PE_ev = neff_PE_ev]
    IN  IF PERejects(neff_PE_ev, S.lik.neffPE)
        THEN Return(S1, "pe_gate", RejectValue(S.lik.cls))
        ELSE Goto(S1, "pe_gate", "variance")

\* (n_ev^2/Neff)*(1-Neff/ntotal) + sum(neff_PE_ev^-1 * (1-neff_PE_ev/Ns_array))
LikelihoodVariance(Neff, neff_PE_ev) ==
    Add(Mul(Div(power(Fin(NEv), 2), Neff),
            Sub(Fin(1), Div(Neff, InjStatic.ntotal))),
        SumSeq([i \in Events |->
                   Mul(power(neff_PE_ev[i], -1),
                       Sub(Fin(1), Div(neff_PE_ev[i], Ns_array[i])))]))

\* the test on the variance: only with a threshold, and only above it
VarianceRejects(variance, thr) ==
    thr # None /\ Gt(variance, thr)

\* self.likelihood_variance = ... and the gate on it
StepVariance(S) ==
    LET v == LikelihoodVariance(S.loc.Neff, S.loc.neff_PE_ev)
        S1 == [S EXCEPT !.lik.likelihood_variance = v]
    IN  IF VarianceRejects(S1.lik.likelihood_variance, S1.lik.likelihood_variance_thr)
        THEN Return(S1, "variance", RejectValue(S.lik.cls))
        ELSE Goto(S1, "variance", "combine")

\* xp.sum(xp.log(sum_weights)) - n_ev*xp.log(pseudo_rate)
CombineScaleFree(pe, inj) ==
    Sub(SumSeq([i \in Events |-> log(pe.sum_weights[i])]),
        Mul(Fin(NEv), log(inj.pseudo_rate)))

\* a slip: the expected number of detections is added
CombineRate_PlusNexp(Nexp, pe) ==
    Add(Add(Nexp, Mul(Fin(NEv), log(InjStatic.Tobs))),
        SumSeq([i \in Events |-> log(pe.sum_weights[i])]))

\* -Nexp + n_ev*xp.log(Tobs) + xp.sum(xp.log(sum_weights))
CombineRate(Nexp, pe) ==
    Add(Add(Neg(Nexp), Mul(Fin(NEv), log(InjStatic.Tobs))),
        SumSeq([i \in Events |-> log(pe.sum_weights[i])]))

\* the combine step: the branch on scale_free of the two full classes, and
\* log_likeli = -Nexp of hierarchical_likelihood_noevents
StepCombine(S) ==
    IF S.lik.cls = "hierarchical_likelihood_noevents"
    THEN LET Nexp == expected_number_detections(S.inj)
         IN  Goto([S EXCEPT !.loc.Nexp = Nexp, !.loc.log_likeli = Neg(Nexp)],
                  "combine", "sanitize")
    ELSE IF S.rm.scale_free
    THEN Goto([S EXCEPT !.loc.log_likeli = CombineScaleFree(S.pe, S.inj)],
              "combine", "sanitize")
    ELSE LET Nexp == expected_number_detections(S.inj)
         IN  Goto([S EXCEPT !.loc.Nexp = Nexp,
                            !.loc.log_likeli = CombineRate(Nexp, S.pe)],
                  "combine", "sanitize")

\* a slip: no test for NaN
Sanitized_NoNaNCheck(cls, log_likeli) ==
    IF cls = "hierarchical_likelihood_v1" THEN log_likeli ELSE nan_to_num(log_likeli)

\* the value the sanitize step returns for a combined value that is not
\* +inf; float() and cp2np() hand the value on as it is
Sanitized(cls, log_likeli) ==
    IF cls = "hierarchical_likelihood_v1"
    THEN (IF isnan(log_likeli) THEN NInf ELSE log_likeli)
    ELSE (IF isnan(log_likeli) THEN nan_to_num(NInf) ELSE nan_to_num(log_likeli))

\* a slip: the test is made against -inf
IsPlusInf_MinusInf(log_likeli) ==
    Eq(log_likeli, NInf)

\* log_likeli == xp.inf
IsPlusInf(log_likeli) ==
    Eq(log_likeli, PInf)

\* the controls on the value of the log-likelihood
StepSanitize(S) ==
    IF IsPlusInf(S.loc.log_likeli)
    THEN Raise(S, "sanitize")
    ELSE Return(S, "sanitize", Sanitized(S.lik.cls, S.loc.log_likeli))

(***************************************************************************)
(* The state: the configuration the objects were built from, the objects   *)
(* of every evaluator instance, and every worker's call.                   *)
(***************************************************************************)
VARIABLES
    cfg,                      \* the configuration and data set, fixed
    conc,                     \* TRUE when two workers evaluate concurrently
    lik,                      \* instance -> the evaluator's own fields
    rate_model,               \* instance -> its rate model
    injections,               \* instance -> its injection set
    posterior_samples_dict,   \* instance -> its posterior sample set
    wk,                       \* worker -> [inst, loc]: instance and locals of its call
    obs,                      \* what an observer of the workers has seen
    prior                     \* a distribution of priors.py and the last call made on it

vars ==
    <<cfg, conc, lik, rate_model, injections, posterior_samples_dict, wk, obs,
      prior>>

\* no distribution of priors.py is under evaluation
NoPrior ==
    [obj |-> None, call |-> "none", args |-> <<>>, out |-> None, n |-> 0]

\* the objects of instance i and the locals of worker w, as one bundle
Bundle(w, i) ==
    [lik |-> lik[i], rm |-> rate_model[i], inj |-> injections[i],
     pe |-> posterior_samples_dict[i], d |-> cfg.d, loc |-> wk[w].loc]

\* the bundle a configuration builds: the state right after construction
FreshBundle(c) ==
    [lik |-> NewLikelihood(c), rm |-> NewRateModel(c.scale_free),
     inj |-> NewInjections, pe |-> NewPosterior, d |-> c.d, loc |-> NoLocals]

Finished(w) ==
    wk[w].loc.pc \in {"idle", "returned", "raised"}

\* The observer, when worker w takes a step on instance i: a call of
\* another worker that is under way was interfered with if it runs on i and
\* overlapped if it runs on another instance; sepDone records that a call
\* returned that was overlapped and never interfered with.
Observe(w, i, S) ==
    LET starts == S.loc.trace = <<>>
        ends == S.loc.pc = "returned"
        mine(f) == IF starts THEN FALSE ELSE f[w]
    IN  [interfered |-> [u \in Workers |->
            IF u = w THEN mine(obs.interfered)
            ELSE obs.interfered[u] \/ (~Finished(u) /\ wk[u].inst = i)],
         overlapped |-> [u \in Workers |->
            IF u = w THEN mine(obs.overlapped)
            ELSE obs.overlapped[u] \/ (~Finished(u) /\ wk[u].inst # i)],
         sepDone |-> obs.sepDone \/
            (ends /\ obs.overlapped[w] /\ ~obs.interfered[w]),
         calls |-> IF conc /\ starts THEN obs.calls + 1 ELSE obs.calls]

\* write a bundle back to instance i and worker w
Store(w, i, S) ==
    /\ lik' = [lik EXCEPT ![i] = S.lik]
    /\ rate_model' = [rate_model EXCEPT ![i] = S.rm]
    /\ injections' = [injections EXCEPT ![i] = S.inj]
    /\ posterior_samples_dict' = [posterior_samples_dict EXCEPT ![i] = S.pe]
    /\ wk' = [wk EXCEPT ![w] = [inst |-> i, loc |-> S.loc]]
    /\ obs' = Observe(w, i, S)
    /\ UNCHANGED <<cfg, conc, prior>>

InitObjects(c) ==
    /\ cfg = c
    /\ lik = [i \in Instances |-> FreshBundle(c).lik]
    /\ rate_model = [i \in Instances |-> FreshBundle(c).rm]
    /\ injections = [i \in Instances |-> FreshBundle(c).inj]
    /\ posterior_samples_dict = [i \in Instances |-> FreshBundle(c).pe]
    /\ wk = [w \in Workers |-> [inst |-> w, loc |-> NoLocals]]
    /\ obs = [interfered |-> [w \in Workers |-> FALSE],
              overlapped |-> [w \in Workers |-> FALSE],
              sepDone |-> FALSE, calls |-> 0]

\* one sampler, one evaluator
Init ==
    /\ conc = FALSE
    /\ prior = NoPrior
    /\ \E c \in Configs : InitObjects(c)

\* the step a call takes next
StepOf(S) ==
    CASE S.loc.pc = "rate_update" -> StepRateUpdate(S)
      [] S.loc.pc = "inj_update" -> StepInjUpdate(S)
      [] S.loc.pc = "inj_gate" -> StepInjGate(S)
      [] S.loc.pc = "pe_update" -> StepPEUpdate(S)
      [] S.loc.pc = "pe_gate" -> StepPEGate(S)
      [] S.loc.pc = "variance" -> StepVariance(S)
      [] S.loc.pc = "combine" -> StepCombine(S)
      [] S.loc.pc = "sanitize" -> StepSanitize(S)
      [] OTHER -> S

RECURSIVE RunCall(_)
\* a call run to its end without anything in between
RunCall(S) ==
    IF S.loc.pc \in {"idle", "returned", "raised"} THEN S ELSE RunCall(StepOf(S))

\* the end of the first call with parameters p on the evaluator that the
\* configuration c builds
ResultOf(c, p) ==
    RunCall(BeginCall(FreshBundle(c), p)).loc

\* the parameters of the concurrent runs: every gamma, with valid shape
\* parameters or with an invalid alpha_chi
ConcParameters ==
    {p \in Parameters : p.beta_chi > 1}

\* the configurations of the concurrent runs: hierarchical_likelihood with
\* its default gates, on the data sets that tell parameters apart: some
\* parameters are accepted with a finite value, others end differently
ConcConfigs ==
    {c \in Configs :
        /\ c.cls = "hierarchical_likelihood"
        /\ c.thr = None /\ c.neffINJ = None /\ ~c.scale_free
        /\ \E p, q \in ConcParameters :
              /\ IsFin(ResultOf(c, p).ret)
              /\ ResultOf(c, q).pc = "returned"
              /\ ResultOf(c, q).ret # ResultOf(c, p).ret}

\* two samplers: the second calls the evaluator of its own, the first is
\* free to call either evaluator
InitConc ==
    /\ conc = TRUE
    /\ prior = NoPrior
    /\ \E c \in ConcConfigs : InitObjects(c)

At(w, pc) ==
    wk[w].loc.pc = pc

Step(w, S) ==
    Store(w, wk[w].inst, S)

\* the sampler of worker w sets the parameters of an instance and calls it
Begin(w) ==
    /\ Finished(w)
    /\ \E i \in Instances, p \in Parameters :
          /\ conc \/ (w = 1 /\ i = 1)
          /\ (w = 2) => (i = 2)
          /\ conc => (p \in ConcParameters /\ obs.calls < MaxCalls)
          /\ Store(w, i, BeginCall(Bundle(w, i), p))

RateUpdate(w) ==
    /\ At(w, "rate_update")
    /\ Step(w, StepRateUpdate(Bundle(w, wk[w].inst)))

InjUpdate(w) ==
    /\ At(w, "inj_update")
    /\ Step(w, StepInjUpdate(Bundle(w, wk[w].inst)))

InjGate(w) ==
    /\ At(w, "inj_gate")
    /\ Step(w, StepInjGate(Bundle(w, wk[w].inst)))

PEUpdate(w) ==
    /\ At(w, "pe_update")
    /\ Step(w, StepPEUpdate(Bundle(w, wk[w].inst)))

PEGate(w) ==
    /\ At(w, "pe_gate")
    /\ Step(w, StepPEGate(Bundle(w, wk[w].inst)))

Variance(w) ==
    /\ At(w, "variance")
    /\ Step(w, StepVariance(Bundle(w, wk[w].inst)))

Combine(w) ==
    /\ At(w, "combine")
    /\ Step(w, StepCombine(Bundle(w, wk[w].inst)))

Sanitize(w) ==
    /\ At(w, "sanitize")
    /\ Step(w, StepSanitize(Bundle(w, wk[w].inst)))

Next ==
    \E w \in Workers :
        \/ Begin(w)
        \/ RateUpdate(w)
        \/ InjUpdate(w)
        \/ InjGate(w)
        \/ PEUpdate(w)
        \/ PEGate(w)
        \/ Variance(w)
        \/ Combine(w)
        \/ Sanitize(w)

Spec ==
    Init /\ [][Next]_vars

SpecConc ==
    InitConc /\ [][Next]_vars

(***************************************************************************)
(* What the claims speak about.                                            *)
(***************************************************************************)
\* the first call with parameters p on a freshly built evaluator
FirstCall(p) ==
    ResultOf(cfg, p)

\* the call of the single sampler
L ==
    wk[1].loc

Ended(l) ==
    l.pc \in {"returned", "raised"}

\* the step a call ended in
EndStep(l) ==
    l.trace[Len(l.trace)]

\* the call ended by a stability rejection, before the combine step
Rejected(l) ==
    l.pc = "returned" /\ EndStep(l) \in {"inj_gate", "pe_gate", "variance"}

\* the call passed rate_model.update and so read the injection Neff
PastUpdate(l) ==
    Ended(l) /\ l.trace # <<"rate_update">>

FullClass ==
    cfg.cls # "hierarchical_likelihood_noevents"

\* the rate model that holds exactly the parameters p, and the data of p:
\* the injection Neff, the per-event Neff_PE and the weights that belong to
\* the parameters of an evaluation
ParamRM(p) ==
    [scale_free |-> cfg.scale_free,
     rw |-> [rate |-> p.gamma],
     sw |-> [alpha_chi |-> p.alpha_chi, beta_chi |-> p.beta_chi,
             csi_spin |-> p.csi_spin, aligned_pdf |-> p.sigma_t,
             beta_pdf |-> <<p.alpha_chi, p.beta_chi>>]]

InjFor(p) ==
    InjOutcomes[InjIndex(cfg.d, ParamRM(p))]

PEFor(p) ==
    PEOutcomes[PEIndex(cfg.d, ParamRM(p))]

\* a float: a finite number (the largest doubles included) or an infinity
IsFloat(a) ==
    a.k \in {"fin", "pinf", "ninf", "pmax", "nmax"}

C2_RejectedIffGate ==
    (FullClass /\ cfg.thr = None /\ PastUpdate(L)) =>
        /\ Rejected(L) <=>
              \/ Lt(InjFor(L.p).Neff, lik[1].neffINJ)
              \/ Eq(InjFor(L.p).Neff, Fin(0))
              \/ \E i \in Events : Lt(PEFor(L.p).neff[i], lik[1].neffPE)
        /\ EndStep(L) # "variance"

\* a rejection at the per-event gate although the variance diagnostic of
\* the evaluation is large
C2_Witness ==
    /\ FullClass /\ cfg.thr = None
    /\ L.pc = "returned" /\ EndStep(L) = "pe_gate"
    /\ L.neff_PE_ev[1] = Fin(19)
    /\ ~Lt(L.Neff, lik[1].neffINJ)

(***************************************************************************)
(* C3                                                                      *)
(***************************************************************************)
\* C3 (as stated): with a variance threshold the neffPE/neffINJ gates are
\* disabled entirely: no rejection is made at the injection gate or at the
\* per-event gate, whatever Neff is (Neff == 0 included), and an evaluation
\* is rejected if and only if its likelihood variance exceeds the threshold.
C3_Original ==
    (FullClass /\ cfg.thr # None /\ PastUpdate(L)) =>
        /\ EndStep(L) \notin {"inj_gate", "pe_gate"}
        /\ Rejected(L) <=>
              Gt(LikelihoodVariance(InjFor(L.p).Neff, PEFor(L.p).neff), cfg.thr)

\* C3 (amended): with a variance threshold neffPE and neffINJ are set to -1
\* whatever was passed to the constructor, so that no comparison of a
\* (non-negative) Neff with neffINJ or of a Neff_PE with neffPE rejects; the
\* Neff == 0 test of the injection gate stays active.  An evaluation is
\* rejected if and only if Neff == 0 or its likelihood variance exceeds the
\* threshold, at the injection gate in the first case only.
C3_VarianceMode ==
    (FullClass /\ cfg.thr # None /\ PastUpdate(L)) =>
        /\ lik[1].neffPE = Fin(-1) /\ lik[1].neffINJ = Fin(-1)
        /\ EndStep(L) # "pe_gate"
        /\ (EndStep(L) = "inj_gate") <=> Eq(InjFor(L.p).Neff, Fin(0))
        /\ Rejected(L) <=>
              \/ Eq(InjFor(L.p).Neff, Fin(0))
              \/ Gt(LikelihoodVariance(InjFor(L.p).Neff, PEFor(L.p).neff), cfg.thr)

\* an evaluation accepted in variance mode although the constructor was
\* given a neffINJ above every Neff and a Neff_PE is below the neffPE passed
C3_Witness ==
    /\ FullClass /\ cfg.thr # None /\ cfg.neffINJ = NeffINJHigh
    /\ L.pc = "returned" /\ EndStep(L) = "sanitize"
    /\ L.neff_PE_ev[1] = Fin(19)
    /\ Lt(lik[1].likelihood_variance, cfg.thr)

(***************************************************************************)
(* C4                                                                      *)
(***************************************************************************)
\* C4: in each of the three likelihood classes, a call whose combined
\* log-likelihood is +inf raises ValueError: it returns nothing, and no call
\* returns +inf or +inf clamped to the largest finite double.
C4_PlusInfRaises ==
    /\ (Ended(L) /\ L.log_likeli = PInf) => (L.pc = "raised" /\ L.ret = None)
    /\ (L.pc = "returned") => L.ret \notin {PInf, PMax}

C4_Witness ==
    /\ cfg.cls = "hierarchical_likelihood_noevents"
    /\ L.pc = "raised" /\ EndStep(L) = "sanitize"
    /\ L.log_likeli = PInf /\ L.Nexp = NInf

(***************************************************************************)
(* C5                                                                      *)
(***************************************************************************)
\* C5 (as stated): the sanitize step returns -inf for a NaN combined value
\* and returns every other combined value that is not +inf unchanged.
C5_Original ==
    (L.pc = "returned" /\ EndStep(L) = "sanitize") =>
        L.ret = IF isnan(L.log_likeli) THEN NInf ELSE L.log_likeli

\* C5 (amended): the sanitize step returns a finite combined value
\* unchanged.  hierarchical_likelihood_v1 returns -inf for NaN and for -inf;
\* hierarchical_likelihood and hierarchical_likelihood_noevents return the
\* most negative finite double (nan_to_num(-inf)) for NaN and for -inf.
C5_Sanitize ==
    (L.pc = "returned" /\ EndStep(L) = "sanitize") =>
        L.ret = CASE IsFin(L.log_likeli) -> L.log_likeli
                  [] cfg.cls = "hierarchical_likelihood_v1" -> NInf
                  [] OTHER -> NMax

\* a NaN combined value returned as the most negative finite double
C5_Witness ==
    /\ cfg.cls = "hierarchical_likelihood"
    /\ L.pc = "returned" /\ EndStep(L) = "sanitize"
    /\ isnan(L.log_likeli) /\ L.ret = NMax

(***************************************************************************)
(* C6                                                                      *)
(***************************************************************************)
\* C6 (as stated): log_likelihood raises only when the combined value is
\* +inf; every other evaluation, one with Beta alpha <= 1 included, ends by
\* returning a float.
C6_Original ==
    Ended(L) =>
        /\ (L.pc = "raised") <=> (L.log_likeli = PInf)
        /\ (L.pc = "returned") => IsFloat(L.ret)

\* C6 (amended): log_likelihood raises ValueError in two cases: when the
\* combined value is +inf, and when rate_model.update raises because a Beta
\* shape parameter alpha_chi or beta_chi is <= 1, before any weight is
\* computed.  Every other evaluation ends by returning a float.
C6_RaisesOnlyPlusInfOrShape ==
    Ended(L) =>
        /\ (L.pc = "raised") <=>
              \/ L.p.alpha_chi <= 1
              \/ L.p.beta_chi <= 1
              \/ L.log_likeli = PInf
        /\ (L.p.alpha_chi <= 1 \/ L.p.beta_chi <= 1) => L.trace = <<"rate_update">>
        /\ (L.pc = "returned") => IsFloat(L.ret)

C6_Witness ==
    /\ L.pc = "raised" /\ L.trace = <<"rate_update">>
    /\ L.p.alpha_chi > 1 /\ L.p.beta_chi <= 1
    /\ L.log_likeli = None

(***************************************************************************)
(* C7                                                                      *)
(***************************************************************************)
\* the steps of one call of the two full classes, in the order of the code
StepOrder ==
    <<"rate_update", "inj_update", "inj_gate", "pe_update", "pe_gate",
      "variance", "combine", "sanitize">>

IsPrefix(t, u) ==
    /\ Len(t) <= Len(u)
    /\ \A k \in 1..Len(t) : t[k] = u[k]

\* the call executed step number k of StepOrder
Did(l, k) ==
    Len(l.trace) >= k

\* C7: the steps of a call are executed in the order rate_model.update,
\* injections.update_weights, injection gate, posterior update_weights,
\* per-event gate, variance, combine, sanitize; every executed step has had
\* its effect on the parameters of the call; a step after a gate is executed
\* only if the gate let the evaluation continue, and a call whose gate
\* rejects has ended at that gate.
C7_StepOrder ==
    (FullClass /\ L.pc # "idle") =>
        /\ IsPrefix(L.trace, StepOrder)
        /\ ~Ended(L) => L.pc = StepOrder[Len(L.trace) + 1]
        /\ (Did(L, 1) /\ L.pc # "raised") => rate_model[1] = ParamRM(L.p)
        /\ Did(L, 2) => injections[1] = InjFor(L.p)
        /\ Did(L, 3) => L.Neff = InjFor(L.p).Neff
        /\ Did(L, 4) => posterior_samples_dict[1] = PEFor(L.p)
        /\ Did(L, 5) => L.neff_PE_ev = PEFor(L.p).neff
        /\ Did(L, 6) => lik[1].likelihood_variance # None
        /\ Did(L, 7) => L.log_likeli # None
        /\ Did(L, 3) =>
              ((Lt(L.Neff, lik[1].neffINJ) \/ Eq(L.Neff, Fin(0)))
                  <=> (L.pc = "returned" /\ Len(L.trace) = 3))
        /\ Did(L, 5) =>
              ((\E i \in Events : Lt(L.neff_PE_ev[i], lik[1].neffPE))
                  <=> (L.pc = "returned" /\ Len(L.trace) = 5))
        /\ Did(L, 6) =>
              ((cfg.thr # None /\ Gt(lik[1].likelihood_variance, cfg.thr))
                  <=> (L.pc = "returned" /\ Len(L.trace) = 6))
        /\ (L.pc = "returned" /\ ~Rejected(L)) => L.trace = StepOrder

\* a call rejected by the variance gate: six steps, no combine
C7_Witness ==
    /\ cfg.cls = "hierarchical_likelihood" /\ cfg.thr # None
    /\ L.pc = "returned"
    /\ L.trace = <<"rate_update", "inj_update", "inj_gate", "pe_update",
                   "pe_gate", "variance">>
    /\ L.log_likeli = None

(***************************************************************************)
(* C8                                                                      *)
(***************************************************************************)
\* sum over the events of log(sum_weights), for the weights of p
SumLogWeights(p) ==
    SumSeq([i \in Events |-> log(PEFor(p).sum_weights[i])])

\* C8: a call of a full class that reaches the combine step computes, with
\* a scale-free rate model, sum log(sum_weights) - n_ev*log(pseudo_rate)
\* without asking for the expected number of detections, and with any other
\* rate model -Nexp + n_ev*log(Tobs) + sum log(sum_weights), Nexp being the
\* expected number of detections of the injection set.
C8_Combine ==
    (FullClass /\ Did(L, 7)) =>
        IF cfg.scale_free
        THEN /\ L.log_likeli =
                  Add(SumLogWeights(L.p),
                      Neg(Mul(Fin(NEv), log(InjFor(L.p).pseudo_rate))))
             /\ L.Nexp = None
        ELSE /\ L.Nexp = InjFor(L.p).Nexp
             /\ L.log_likeli =
                  Add(Neg(InjFor(L.p).Nexp),
                      Add(Mul(Fin(NEv), log(InjStatic.Tobs)), SumLogWeights(L.p)))

\* a finite combined value of the rate-normalized branch
C8_Witness ==
    /\ FullClass /\ ~cfg.scale_free
    /\ L.pc = "returned" /\ EndStep(L) = "sanitize"
    /\ L.Nexp = Fin(3)
    /\ L.log_likeli = Fin(-3 + NEv + NEv)

(***************************************************************************)
(* C9                                                                      *)
(***************************************************************************)
\* C9: whatever evaluations came before on the same evaluator, a call with
\* parameters p ends as the first call with p on a freshly built evaluator
\* ends: the same return value, or the same exception.
C9_HistoryIndependent ==
    Ended(L) =>
        /\ L.pc = FirstCall(L.p).pc
        /\ L.ret = FirstCall(L.p).ret

\* a call rejected at the injection gate on an evaluator whose posterior
\* sample set still holds the weights of an earlier, accepted evaluation
\* with other parameters
C9_Witness ==
    /\ L.pc = "returned" /\ EndStep(L) = "inj_gate"
    /\ posterior_samples_dict[1] # NewPosterior
    /\ posterior_samples_dict[1] # PEFor(L.p)
    /\ lik[1].likelihood_variance # None

(***************************************************************************)
(* C10                                                                     *)
(***************************************************************************)
\* C10: with two workers whose steps interleave, a call during which no
\* other worker took a step on the same evaluator instance ends as the
\* first call with its parameters on a fresh evaluator ends; in particular
\* every call on an instance of the worker's own does.  (On a shared
\* instance some interleaving ends a call with the result of the other
\* call's parameters: C10_Witness.)
C10_SeparateInstancesSafe ==
    \A w \in Workers :
        (Ended(wk[w].loc) /\ ~obs.interfered[w]) =>
            /\ wk[w].loc.pc = FirstCall(wk[w].loc.p).pc
            /\ wk[w].loc.ret = FirstCall(wk[w].loc.p).ret

\* after a call that overlapped with a call on the other instance has
\* returned its sequential result, two calls share an instance and one of
\* them returns a value that is not the value of its parameters
C10_Witness ==
    /\ obs.sepDone
    /\ \E w \in Workers :
          /\ Ended(wk[w].loc) /\ obs.interfered[w]
          /\ \E u \in Workers \ {w} : wk[u].inst = wk[w].inst
          /\ wk[w].loc.pc = "returned"
          /\ FirstCall(wk[w].loc.p).pc = "returned"
          /\ wk[w].loc.ret # FirstCall(wk[w].loc.p).ret

(***************************************************************************)
(* C11                                                                     *)
(***************************************************************************)
\* C11: an evaluator built without a variance threshold has neffPE = 20
\* (the default of the constructor) and, when neffINJ was not given,
\* neffINJ = 4 * n_ev; an evaluator keeps the neffPE, neffINJ and
\* likelihood_variance_thr its constructor set (-1, -1 and the threshold
\* when one was given) in every state, inside and after every call,
\* whether the call was accepted, rejected or raised.
C11_SettingsFixed ==
    FullClass =>
        /\ lik[1].likelihood_variance_thr = cfg.thr
        /\ (cfg.thr = None) =>
              /\ lik[1].neffPE = Fin(20)
              /\ (cfg.neffINJ = None) => lik[1].neffINJ = Fin(4 * NEv)
              /\ (cfg.neffINJ # None) => lik[1].neffINJ = cfg.neffINJ
        /\ (cfg.thr # None) =>
              /\ lik[1].neffPE = Fin(-1)
              /\ lik[1].neffINJ = Fin(-1)

\* an evaluator built with the defaults has rejected a call at the
\* posterior gate
C11_Witness ==
    /\ FullClass /\ cfg.thr = None /\ cfg.neffINJ = None
    /\ L.pc = "returned" /\ EndStep(L) = "pe_gate"
    /\ lik[1].neffPE = Fin(20) /\ lik[1].neffINJ = Fin(4 * NEv)

(***************************************************************************)
(* priors.py: numbers.  The densities of priors.py are handled through     *)
(* their logarithms.  The logarithm of a rational q > 0 is the value       *)
(* [k |-> "lfin", n, d], standing for ln(n/d); ln 1 is Fin(0).  Sums and   *)
(* differences of logarithms are the products and quotients of what they   *)
(* are the logarithms of, with the IEEE-754 outcomes for the infinities    *)
(* (-inf + inf = NaN, 0 * inf = NaN).                                      *)
(***************************************************************************)
Le(a, b) ==
    Lt(a, b) \/ Eq(a, b)

Ge(a, b) ==
    Le(b, a)

\* the largest x for which exp(x) is a finite double (709.78...), and the
\* smallest for which it is not 0 (-745.13...), as whole numbers
ExpOverflow ==
    709

ExpUnderflow ==
    745

\* xp.exp of a plain rational a # 0: exact beyond the range of the doubles,
\* and on the arguments the window functions meet inside the range:
\* exp(8/3) = 14.39..., exp(-8/3) = 0.0695...
ExpRational(a) ==
    CASE Gt(a, Fin(ExpOverflow)) -> PInf
      [] Lt(a, Fin(-ExpUnderflow)) -> Fin(0)
      [] a = Rat(8, 3) -> Rat(72, 5)
      [] a = Rat(-8, 3) -> Rat(5, 72)

\* xp.exp
xp_exp(a) ==
    CASE isnan(a) -> NaN
      [] a.k \in {"pinf", "pmax"} -> PInf
      [] a.k \in {"ninf", "nmax"} -> Fin(0)
      [] a.k = "lfin" -> Rat(a.n, a.d)
      [] a.k = "fin" -> IF a.n = 0 THEN Fin(1) ELSE ExpRational(a)

\* xp.log of a value that is not itself a logarithm
xp_log(a) ==
    CASE isnan(a) -> NaN
      [] a.k = "pinf" -> PInf
      [] a.k = "ninf" -> NaN
      [] a.k = "fin" ->
            IF a.n < 0 THEN NaN
            ELSE IF a.n = 0 THEN NInf
            ELSE IF a.n = a.d THEN Fin(0)
            ELSE [k |-> "lfin", n |-> a.n, d |-> a.d]

\* xp.log1p(a) = log(1 + a)
log1p(a) ==
    xp_log(Add(Fin(1), a))

\* l1 + l2 for two logarithms
AddLog(l1, l2) ==
    xp_log(Mul(xp_exp(l1), xp_exp(l2)))

\* l1 - l2 for two logarithms
SubLog(l1, l2) ==
    xp_log(Div(xp_exp(l1), xp_exp(l2)))

\* xp.logaddexp(l1, l2) = log(exp(l1) + exp(l2))
logaddexp(l1, l2) ==
    xp_log(Add(xp_exp(l1), xp_exp(l2)))

RECURSIVE IntPower(_, _)
\* a^e for a whole number e >= 0
IntPower(a, e) ==
    IF e = 0 THEN Fin(1) ELSE Mul(a, IntPower(a, e - 1))

\* np.power(a, e) for a whole number e
np_power(a, e) ==
    IF e >= 0 THEN IntPower(a, e) ELSE Div(Fin(1), IntPower(a, -e))

\* e * l for a whole number e and a logarithm l
MulLog(e, l) ==
    CASE isnan(l) -> NaN
      [] IsInf(l) -> Mul(Fin(e), l)
      [] OTHER -> xp_log(np_power(xp_exp(l), e))

(***************************************************************************)
(* priors.py: the window functions.                                        *)
(***************************************************************************)
\* a slip: the window is tested before the two clamps, which it then
\* skips, so that the ends of the window are not clamped
highpass_filter_Unclamped(mass, mmin, delta_m) ==
    IF delta_m = Fin(0) THEN Fin(1)
    ELSE LET mprime == Sub(mass, mmin)
             inner == Ge(mass, mmin) /\ Le(mass, Add(delta_m, mmin))
             effe_prime ==
                IF inner
                THEN xp_exp(nan_to_num(Add(Div(delta_m, mprime),
                                           Div(delta_m, Sub(mprime, delta_m)))))
                ELSE Fin(1)
         IN  IF inner THEN Div(Fin(1), Add(effe_prime, Fin(1)))
             ELSE IF Gt(mass, mmin) THEN Fin(1) ELSE Fin(0)

\* _highpass_filter(mass, mmin, delta_m), for one element of mass
highpass_filter(mass, mmin, delta_m) ==
    IF delta_m = Fin(0) THEN Fin(1)
    ELSE LET mprime == Sub(mass, mmin)
             select_window == Gt(mass, mmin) /\ Lt(mass, Add(delta_m, mmin))
             select_one == Ge(mass, Add(delta_m, mmin))
             select_zero == Le(mass, mmin)
             effe_prime ==
                IF select_window
                THEN xp_exp(nan_to_num(Add(Div(delta_m, mprime),
                                           Div(delta_m, Sub(mprime, delta_m)))))
                ELSE Fin(1)
             to_ret == Div(Fin(1), Add(effe_prime, Fin(1)))
         IN  IF select_one THEN Fin(1)
             ELSE IF select_zero THEN Fin(0)
             ELSE to_ret

\* _lowpass_filter(mass, mmax, delta_max), for one element of mass
lowpass_filter(mass, mmax, delta_max) ==
    IF delta_max = Fin(0) THEN Fin(1)
    ELSE LET mprime == Sub(mmax, mass)
             select_window == Lt(mass, mmax) /\ Gt(mass, Sub(mmax, delta_max))
             select_one == Le(mass, Sub(mmax, delta_max))
             select_zero == Ge(mass, mmax)
             effe_prime ==
                IF select_window
                THEN xp_exp(nan_to_num(Add(Div(delta_max, mprime),
                                           Div(delta_max, Sub(mprime, delta_max)))))
                ELSE Fin(1)
             to_ret == Div(Fin(1), Add(effe_prime, Fin(1)))
         IN  IF select_one THEN Fin(1)
             ELSE IF select_zero THEN Fin(0)
             ELSE to_ret

\* a slip: the dip is added instead of taken away
notch_filter_Adds(mass, mlow, delta_low, mhigh, delta_high, A) ==
    Add(Fin(1), Mul(Mul(A, highpass_filter(mass, mlow, delta_low)),
                    lowpass_filter(mass, mhigh, delta_high)))

\* _notch_filter(mass, mlow, delta_low, mhigh, delta_high, A)
notch_filter(mass, mlow, delta_low, mhigh, delta_high, A) ==
    Sub(Fin(1), Mul(Mul(A, highpass_filter(mass, mlow, delta_low)),
                    lowpass_filter(mass, mhigh, delta_high)))

(***************************************************************************)
(* priors.py: the normalisation of a power law.  The exponents of the      *)
(* model are whole numbers.                                                *)
(***************************************************************************)
\* PL_normfact(minpl, maxpl, alpha)
PL_normfact(minpl, maxpl, alpha) ==
    IF alpha = -1
    THEN xp_log(Div(maxpl, minpl))
    ELSE Div(Sub(np_power(maxpl, alpha + 1), np_power(minpl, alpha + 1)),
             Fin(alpha + 1))

\* alpha.any(): a bool, which Python compares with a number as 1 or 0
alpha_any(alpha) ==
    IF \E i \in DOMAIN alpha : alpha[i] # 0 THEN 1 ELSE 0

\* PL_normfact_z(minpl, maxpl, alpha) for arrays over the redshifts: the
\* test compares alpha.any() with -1, the arithmetic is element by element
PL_normfact_z(minpl, maxpl, alpha) ==
    IF alpha_any(alpha) = -1
    THEN [i \in DOMAIN alpha |-> xp_log(Div(maxpl[i], minpl[i]))]
    ELSE [i \in DOMAIN alpha |->
            Div(Sub(np_power(maxpl[i], alpha[i] + 1),
                    np_power(minpl[i], alpha[i] + 1)),
                Fin(alpha[i] + 1))]

(***************************************************************************)
(* priors.py: the 1-D distributions.  A distribution object is a record    *)
(* with its class (cls), the bounds minval and maxval that basic_1dimpdf   *)
(* keeps, and the fields its own __init__ sets.  The arrays x, y of the    *)
(* code are handled one element at a time.                                 *)
(***************************************************************************)
RECURSIVE log_pdf(_, _), log_cdf(_, _)

\* basic_1dimpdf.pdf
pdf(self, x) ==
    xp_exp(log_pdf(self, x))

\* basic_1dimpdf.cdf
cdf(self, x) ==
    xp_exp(log_cdf(self, x))

\* basic_1dimpdf.__init__
basic_1dimpdf_init(minval, maxval) ==
    [minval |-> minval, maxval |-> maxval]

\* check_bounds_1D(x, minval, maxval): where x is outside the bounds
check_bounds_1D(x, minval, maxval) ==
    Lt(x, minval) \/ Gt(x, maxval)

\* a slip: only the lower bound is looked at
check_bound_pdf_LowerOnly(self, x, y) ==
    IF Lt(x, self.minval) THEN NInf ELSE y

\* basic_1dimpdf._check_bound_pdf
check_bound_pdf(self, x, y) ==
    IF check_bounds_1D(x, self.minval, self.maxval) THEN NInf ELSE y

\* basic_1dimpdf._check_bound_cdf: y[x<minval], y[x>maxval] = -inf, 0.
check_bound_cdf(self, x, y) ==
    LET y1 == IF Lt(x, self.minval) THEN NInf ELSE y
    IN  IF Gt(x, self.maxval) THEN Fin(0) ELSE y1

\* np.linspace(a, b, n)
linspace(a, b, n) ==
    [i \in 1..n |-> Add(a, Mul(Rat(i - 1, n - 1), Sub(b, a)))]

\* np.trapz(y, x)
trapz(y, x) ==
    SumSeq([i \in 1..(Len(x) - 1) |->
               Mul(Sub(x[i + 1], x[i]), Div(Add(y[i], y[i + 1]), Fin(2)))])

(***************************************************************************)
(* PowerLaw                                                                *)
(***************************************************************************)
\* PowerLaw.__init__
PowerLaw_init(minpl, maxpl, alpha) ==
    [cls |-> "PowerLaw", minval |-> minpl, maxval |-> maxpl,
     minpl |-> minpl, maxpl |-> maxpl, alpha |-> alpha,
     norm_fact |-> PL_normfact(minpl, maxpl, alpha)]

\* a slip: the logarithm of the normalisation is added
PowerLaw_log_pdf_AddsNorm(self, x) ==
    AddLog(MulLog(self.alpha, xp_log(x)), xp_log(self.norm_fact))

\* PowerLaw._log_pdf
PowerLaw_log_pdf(self, x) ==
    SubLog(MulLog(self.alpha, xp_log(x)), xp_log(self.norm_fact))

\* a / b for two logarithms of powers of two, a = ln 2^i and b = ln 2^j
DivLogs(a, b) ==
    CASE isnan(a) -> NaN
      [] IsInf(a) -> a
      [] OTHER -> Rat(Log2(a.n) - Log2(a.d), Log2(b.n) - Log2(b.d))

\* a slip: the cdf is not taken from minpl on
PowerLaw_log_cdf_FromZero(self, x) ==
    IF self.alpha = -1
    THEN xp_log(DivLogs(xp_log(x), self.norm_fact))
    ELSE xp_log(Div(Div(np_power(x, self.alpha + 1), Fin(self.alpha + 1)),
                    self.norm_fact))

\* PowerLaw._log_cdf
PowerLaw_log_cdf(self, x) ==
    IF self.alpha = -1
    THEN xp_log(DivLogs(xp_log(Div(x, self.minval)), self.norm_fact))
    ELSE xp_log(Div(Div(Sub(np_power(x, self.alpha + 1),
                            np_power(self.minpl, self.alpha + 1)),
                        Fin(self.alpha + 1)),
                    self.norm_fact))

(***************************************************************************)
(* BetaDistribution and TruncatedBetaDistribution, with whole shape        *)
(* parameters: the gamma function is a factorial and the regularized       *)
(* incomplete beta function a polynomial.                                  *)
(***************************************************************************)
RECURSIVE Factorial(_)
Factorial(n) ==
    IF n <= 1 THEN 1 ELSE n * Factorial(n - 1)

Binomial(n, j) ==
    Factorial(n) \div (Factorial(j) * Factorial(n - j))

\* get_beta_norm(alpha, beta) = gamma(alpha) gamma(beta) / gamma(alpha+beta)
get_beta_norm(alpha, beta) ==
    Rat(Factorial(alpha - 1) * Factorial(beta - 1), Factorial(alpha + beta - 1))

\* sn.special.betainc(a, b, x): NaN outside [0, 1]
betainc(a, b, x) ==
    IF isnan(x) \/ Lt(x, Fin(0)) \/ Gt(x, Fin(1)) THEN NaN
    ELSE SumSeq([i \in 1..b |->
                   LET j == a + i - 1
                   IN  Mul(Fin(Binomial(a + b - 1, j)),
                           Mul(np_power(x, j),
                               np_power(Sub(Fin(1), x), a + b - 1 - j)))])

\* BetaDistribution.__init__
BetaDistribution_init(alpha, beta) ==
    [cls |-> "BetaDistribution", minval |-> Fin(0), maxval |-> Fin(1),
     alpha |-> alpha, beta |-> beta, norm_fact |-> get_beta_norm(alpha, beta)]

\* TruncatedBetaDistribution.__init__
TruncatedBetaDistribution_init(alpha, beta, maximum) ==
    [cls |-> "TruncatedBetaDistribution", minval |-> Fin(0), maxval |-> maximum,
     alpha |-> alpha, beta |-> beta, maximum |-> maximum,
     norm_fact |-> Mul(get_beta_norm(alpha, beta), betainc(alpha, beta, maximum))]

\* BetaDistribution._log_pdf and TruncatedBetaDistribution._log_pdf
Beta_log_pdf(self, x) ==
    SubLog(AddLog(MulLog(self.alpha - 1, xp_log(x)),
                  MulLog(self.beta - 1, log1p(Neg(x)))),
           xp_log(self.norm_fact))

\* BetaDistribution._log_cdf
BetaDistribution_log_cdf(self, x) ==
    xp_log(betainc(self.alpha, self.beta, x))

\* TruncatedBetaDistribution._log_cdf
TruncatedBetaDistribution_log_cdf(self, x) ==
    xp_log(Div(betainc(self.alpha, self.beta, x),
               betainc(self.alpha, self.beta, self.maximum)))

(***************************************************************************)
(* TruncatedGaussian.  The error function and the Gaussian density are     *)
(* tabulated at the standard scores z = (x - mean)/sigma that are          *)
(* multiples of 1/2, |z| <= 2: erf(z/sqrt 2) = 0, 0.383, 0.683, 0.866,     *)
(* 0.954 and exp(-z^2/2)/sqrt(2 pi) = 0.399, 0.352, 0.242, 0.130, 0.054,   *)
(* rounded to the fractions below, which keep the density the derivative   *)
(* of the error function under the trapezoidal rule on these points.       *)
(***************************************************************************)
ErfTable ==
    <<Rat(3, 8), Rat(27, 40), Rat(69, 80), Rat(19, 20)>>

PhiTable ==
    <<Rat(7, 20), Rat(1, 4), Rat(1, 8), Rat(1, 20)>>

\* twice the standard score, a whole number on the points of the model
TwiceScore(z) ==
    IF z.d = 1 THEN 2 * z.n ELSE z.n

\* sx.special.erf(z / sqrt(2))
erf_sqrt2(z) ==
    CASE isnan(z) -> NaN
      [] Gt(z, Fin(2)) -> Fin(1)
      [] Lt(z, Fin(-2)) -> Fin(-1)
      [] z.n = 0 -> Fin(0)
      [] z.n > 0 -> ErfTable[TwiceScore(z)]
      [] z.n < 0 -> Neg(ErfTable[-TwiceScore(z)])

\* -0.5*log(2 pi) - 0.5*z^2, the logarithm of the standard normal density
log_normal_density(z) ==
    CASE isnan(z) -> NaN
      [] IsInf(z) -> NInf
      [] Gt(z, Fin(2)) \/ Lt(z, Fin(-2)) -> xp_log(Rat(1, 200))
      [] z.n = 0 -> xp_log(Rat(2, 5))
      [] OTHER -> xp_log(PhiTable[Abs(TwiceScore(z))])

\* get_gaussian_norm(ming, maxg, meang, sigmag)
get_gaussian_norm(ming, maxg, meang, sigmag) ==
    LET max_point == Div(Sub(maxg, meang), sigmag)
        min_point == Div(Sub(ming, meang), sigmag)
    IN  Sub(Mul(Rat(1, 2), erf_sqrt2(max_point)),
            Mul(Rat(1, 2), erf_sqrt2(min_point)))

\* TruncatedGaussian.__init__
TruncatedGaussian_init(meang, sigmag, ming, maxg) ==
    [cls |-> "TruncatedGaussian", minval |-> ming, maxval |-> maxg,
     meang |-> meang, sigmag |-> sigmag, ming |-> ming, maxg |-> maxg,
     norm_fact |-> get_gaussian_norm(ming, maxg, meang, sigmag)]

\* TruncatedGaussian._log_pdf
TruncatedGaussian_log_pdf(self, x) ==
    SubLog(SubLog(log_normal_density(Div(Sub(x, self.meang), self.sigmag)),
                  xp_log(self.sigmag)),
           xp_log(self.norm_fact))

\* TruncatedGaussian._log_cdf
TruncatedGaussian_log_cdf(self, x) ==
    LET max_point == Div(Sub(x, self.meang), self.sigmag)
        min_point == Div(Sub(self.ming, self.meang), self.sigmag)
    IN  xp_log(Div(Sub(Mul(Rat(1, 2), erf_sqrt2(max_point)),
                       Mul(Rat(1, 2), erf_sqrt2(min_point))),
                   self.norm_fact))

(***************************************************************************)
(* BrokenPowerLaw                                                          *)
(***************************************************************************)
\* BrokenPowerLaw.__init__
BrokenPowerLaw_init(minpl, maxpl, alpha_1, alpha_2, b) ==
    LET break_point == Add(minpl, Mul(b, Sub(maxpl, minpl)))
        PL1 == PowerLaw_init(minpl, break_point, alpha_1)
        PL2 == PowerLaw_init(break_point, maxpl, alpha_2)
    IN  [cls |-> "BrokenPowerLaw", minval |-> minpl, maxval |-> maxpl,
         minpl |-> minpl, maxpl |-> maxpl, alpha_1 |-> alpha_1,
         alpha_2 |-> alpha_2, b |-> b, break_point |-> break_point,
         PL1 |-> PL1, PL2 |-> PL2,
         norm_fact |-> Add(Fin(1), Div(pdf(PL1, break_point),
                                        pdf(PL2, break_point)))]

\* BrokenPowerLaw._log_pdf
BrokenPowerLaw_log_pdf(self, x) ==
    SubLog(logaddexp(log_pdf(self.PL1, x),
                     SubLog(AddLog(log_pdf(self.PL2, x),
                                   log_pdf(self.PL1, self.break_point)),
                            log_pdf(self.PL2, self.break_point))),
           xp_log(self.norm_fact))

\* BrokenPowerLaw._log_cdf
BrokenPowerLaw_log_cdf(self, x) ==
    xp_log(Div(Add(cdf(self.PL1, x),
                   Mul(cdf(self.PL2, x),
                       Div(pdf(self.PL1, self.break_point),
                           pdf(self.PL2, self.break_point)))),
               self.norm_fact))

(***************************************************************************)
(* The mixtures.  Each has one weight per component: the logarithms of     *)
(* the weights that _log_pdf adds to the components' log_pdf, and the      *)
(* weights that _log_cdf multiplies the components' cdf with.              *)
(***************************************************************************)
\* PowerLawGaussian.__init__
PowerLawGaussian_init(minpl, maxpl, alpha, lambdag, meang, sigmag, ming, maxg) ==
    [cls |-> "PowerLawGaussian",
     minval |-> IF Lt(ming, minpl) THEN ming ELSE minpl,
     maxval |-> IF Gt(maxg, maxpl) THEN maxg ELSE maxpl,
     lambdag |-> lambdag,
     PL |-> PowerLaw_init(minpl, maxpl, alpha),
     TG |-> TruncatedGaussian_init(meang, sigmag, ming, maxg)]

\* PowerLawGaussian._log_pdf: log1p(-lambdag), log(lambdag)
PowerLawGaussian_pdf_log_weights(self) ==
    <<log1p(Neg(self.lambdag)), xp_log(self.lambdag)>>

\* PowerLawGaussian._log_cdf: (1-lambdag), lambdag
PowerLawGaussian_cdf_weights(self) ==
    <<Sub(Fin(1), self.lambdag), self.lambdag>>

\* the smallest and the largest of three values
Min3(a, b, c) ==
    LET m == IF Lt(b, a) THEN b ELSE a IN IF Lt(c, m) THEN c ELSE m

Max3(a, b, c) ==
    LET m == IF Gt(b, a) THEN b ELSE a IN IF Gt(c, m) THEN c ELSE m

\* PowerLawTwoGaussians.__init__
PowerLawTwoGaussians_init(minpl, maxpl, alpha, lambdag, lambdaglow, meanglow, sigmaglow, minglow, maxglow, meanghigh, sigmaghigh, minghigh, maxghigh) ==
    [cls |-> "PowerLawTwoGaussians",
     minval |-> Min3(minpl, minglow, minghigh),
     maxval |-> Max3(maxpl, maxglow, maxghigh),
     lambdag |-> lambdag, lambdaglow |-> lambdaglow,
     PL |-> PowerLaw_init(minpl, maxpl, alpha),
     TGlow |-> TruncatedGaussian_init(meanglow, sigmaglow, minglow, maxglow),
     TGhigh |-> TruncatedGaussian_init(meanghigh, sigmaghigh, minghigh, maxghigh)]

\* BrokenPowerLawMultiPeak.__init__
BrokenPowerLawMultiPeak_init(minpl, maxpl, alpha_1, alpha_2, b, lambdag, lambdaglow, meanglow, sigmaglow, minglow, maxglow, meanghigh, sigmaghigh, minghigh, maxghigh) ==
    [cls |-> "BrokenPowerLawMultiPeak",
     minval |-> Min3(minpl, minglow, minghigh),
     maxval |-> Max3(maxpl, maxglow, maxghigh),
     lambdag |-> lambdag, lambdaglow |-> lambdaglow,
     BPL |-> BrokenPowerLaw_init(minpl, maxpl, alpha_1, alpha_2, b),
     TGlow |-> TruncatedGaussian_init(meanglow, sigmaglow, minglow, maxglow),
     TGhigh |-> TruncatedGaussian_init(meanghigh, sigmaghigh, minghigh, maxghigh)]

\* PowerLawTwoGaussians._log_pdf and BrokenPowerLawMultiPeak._log_pdf:
\* log1p(-lambdag), log(lambdag)+log(lambdaglow), log(lambdag)+log1p(-lambdaglow)
TwoGaussians_pdf_log_weights(self) ==
    <<log1p(Neg(self.lambdag)),
      AddLog(xp_log(self.lambdag), xp_log(self.lambdaglow)),
      AddLog(xp_log(self.lambdag), log1p(Neg(self.lambdaglow)))>>

\* PowerLawTwoGaussians._log_cdf and BrokenPowerLawMultiPeak._log_cdf:
\* (1-lambdag), lambdag*lambdaglow, lambdag*(1-lambdaglow)
TwoGaussians_cdf_weights(self) ==
    <<Sub(Fin(1), self.lambdag),
      Mul(self.lambdag, self.lambdaglow),
      Mul(self.lambdag, Sub(Fin(1), self.lambdaglow))>>

\* BrokenPowerLawTripleMultiPeak.__init__; the three Gaussians have the
\* bounds of the power law in the model
BrokenPowerLawTripleMultiPeak_init(minpl, maxpl, alpha_1, alpha_2, b, lambdag, lambda1, lambda2, meang1, meang2, meang3, sigmag) ==
    [cls |-> "BrokenPowerLawTripleMultiPeak",
     minval |-> minpl, maxval |-> maxpl,
     lambdag |-> lambdag, lambda1 |-> lambda1, lambda2 |-> lambda2,
     BPL |-> BrokenPowerLaw_init(minpl, maxpl, alpha_1, alpha_2, b),
     TG1 |-> TruncatedGaussian_init(meang1, sigmag, minpl, maxpl),
     TG2 |-> TruncatedGaussian_init(meang2, sigmag, minpl, maxpl),
     TG3 |-> TruncatedGaussian_init(meang3, sigmag, minpl, maxpl)]

\* BrokenPowerLawTripleMultiPeak._log_pdf: log1p(-lambdag),
\* log(lambdag)+log(lambda1), log(lambdag)+log1p(-lambda1),
\* log(lambdag)+log1p(-lambda1)+log1p(-lambda2)
BrokenPowerLawTripleMultiPeak_pdf_log_weights(self) ==
    <<log1p(Neg(self.lambdag)),
      AddLog(xp_log(self.lambdag), xp_log(self.lambda1)),
      AddLog(xp_log(self.lambdag), log1p(Neg(self.lambda1))),
      AddLog(AddLog(xp_log(self.lambdag), log1p(Neg(self.lambda1))),
             log1p(Neg(self.lambda2)))>>

\* BrokenPowerLawTripleMultiPeak._log_cdf: (1-lambdag), lambdag*lambda1,
\* lambdag*(1-lambda1)*lambda2, lambdag*(1-lambda1)*(1-lambda2)
BrokenPowerLawTripleMultiPeak_cdf_weights(self) ==
    <<Sub(Fin(1), self.lambdag),
      Mul(self.lambdag, self.lambda1),
      Mul(Mul(self.lambdag, Sub(Fin(1), self.lambda1)), self.lambda2),
      Mul(Mul(self.lambdag, Sub(Fin(1), self.lambda1)),
          Sub(Fin(1), self.lambda2))>>

Mixtures ==
    {"PowerLawGaussian", "PowerLawTwoGaussians", "BrokenPowerLawMultiPeak",
     "BrokenPowerLawTripleMultiPeak"}

\* the components of a mixture, in the order of its weights
Components(self) ==
    CASE self.cls = "PowerLawGaussian" -> <<self.PL, self.TG>>
      [] self.cls = "PowerLawTwoGaussians" -> <<self.PL, self.TGlow, self.TGhigh>>
      [] self.cls = "BrokenPowerLawMultiPeak" -> <<self.BPL, self.TGlow, self.TGhigh>>
      [] self.cls = "BrokenPowerLawTripleMultiPeak" ->
            <<self.BPL, self.TG1, self.TG2, self.TG3>>

pdf_log_weights(self) ==
    CASE self.cls = "PowerLawGaussian" -> PowerLawGaussian_pdf_log_weights(self)
      [] self.cls \in {"PowerLawTwoGaussians", "BrokenPowerLawMultiPeak"} ->
            TwoGaussians_pdf_log_weights(self)
      [] self.cls = "BrokenPowerLawTripleMultiPeak" ->
            BrokenPowerLawTripleMultiPeak_pdf_log_weights(self)

cdf_weights(self) ==
    CASE self.cls = "PowerLawGaussian" -> PowerLawGaussian_cdf_weights(self)
      [] self.cls \in {"PowerLawTwoGaussians", "BrokenPowerLawMultiPeak"} ->
            TwoGaussians_cdf_weights(self)
      [] self.cls = "BrokenPowerLawTripleMultiPeak" ->
            BrokenPowerLawTripleMultiPeak_cdf_weights(self)

RECURSIVE LogSumExp(_)
\* xp.logaddexp(xp.logaddexp(l1, l2), ...) over a sequence, from the left
LogSumExp(ls) ==
    IF Len(ls) = 1 THEN ls[1]
    ELSE logaddexp(LogSumExp(SubSeq(ls, 1, Len(ls) - 1)), ls[Len(ls)])

\* _log_pdf of a mixture
Mixture_log_pdf(self, x) ==
    LogSumExp([i \in 1..Len(Components(self)) |->
                  AddLog(pdf_log_weights(self)[i],
                         log_pdf(Components(self)[i], x))])

\* _log_cdf of a mixture
Mixture_log_cdf(self, x) ==
    xp_log(SumSeq([i \in 1..Len(Components(self)) |->
                      Mul(cdf_weights(self)[i], cdf(Components(self)[i], x))]))

(***************************************************************************)
(* The smoothed wrappers.  Their __init__ integrates the base density on   *)
(* np.linspace grids of 1000 points; the model takes NInt points.          *)
(***************************************************************************)
NInt ==
    5

\* np.trapz(self.origin_prob.pdf(int_array), int_array)
integral_before(originprob, int_array) ==
    trapz([i \in DOMAIN int_array |-> pdf(originprob, int_array[i])], int_array)

\* np.trapz(self.origin_prob.pdf(int_array)*_highpass_filter(int_array,
\* self.bottom, self.bottom_smooth), int_array)
integral_now(originprob, int_array, bottom, bottomsmooth) ==
    trapz([i \in DOMAIN int_array |->
              Mul(pdf(originprob, int_array[i]),
                  highpass_filter(int_array[i], bottom, bottomsmooth))],
          int_array)

\* LowpassSmoothedProb.__init__, up to self.norm
LowpassSmoothedProb_init(originprob, bottomsmooth) ==
    [cls |-> "LowpassSmoothedProb",
     minval |-> originprob.minval, maxval |-> originprob.maxval,
     origin_prob |-> originprob, bottom_smooth |-> bottomsmooth,
     bottom |-> originprob.minval,
     norm |-> Add(Sub(Fin(1),
                      integral_before(originprob,
                                      linspace(originprob.minval,
                                               Add(originprob.minval, bottomsmooth),
                                               NInt))),
                  integral_now(originprob,
                               linspace(originprob.minval,
                                        Add(originprob.minval, bottomsmooth), NInt),
                               originprob.minval, bottomsmooth))]

\* LowpassSmoothedProb._log_pdf
LowpassSmoothedProb_log_pdf(self, x) ==
    LET window == highpass_filter(x, self.bottom, self.bottom_smooth)
    IN  SubLog(AddLog(log_pdf(self.origin_prob, x), xp_log(window)),
               xp_log(self.norm))

\* the product of the three windows of SmoothedPlusDipProb
DipWindows(x, bottom, bottomsmooth, top, topsmooth, leftdip, leftdipsmooth, rightdip, rightdipsmooth, deep) ==
    Mul(Mul(highpass_filter(x, bottom, bottomsmooth),
            lowpass_filter(x, top, topsmooth)),
        notch_filter(x, leftdip, leftdipsmooth, rightdip, rightdipsmooth, deep))

\* np.trapz(self.origin_prob.pdf(int_array)*_highpass_filter(...)
\* *_lowpass_filter(...)*_notch_filter(...), int_array)
dip_integral_now(self, int_array) ==
    trapz([i \in DOMAIN int_array |->
              Mul(pdf(self.origin_prob, int_array[i]),
                  DipWindows(int_array[i], self.bottom, self.bottom_smooth,
                             self.top, self.top_smooth, self.left_dip,
                             self.left_dip_smooth, self.right_dip,
                             self.right_dip_smooth, self.deep))],
          int_array)

\* SmoothedPlusDipProb.__init__: the fields set before the integrals
SmoothedPlusDipProb_fields(originprob, bottomsmooth, topsmooth, leftdip, rightdip, leftdipsmooth, rightdipsmooth, deep) ==
    [cls |-> "SmoothedPlusDipProb",
     minval |-> originprob.minval, maxval |-> originprob.maxval,
     origin_prob |-> originprob,
     bottom_smooth |-> bottomsmooth, bottom |-> originprob.minval,
     top_smooth |-> topsmooth, top |-> originprob.maxval,
     left_dip |-> leftdip, left_dip_smooth |-> leftdipsmooth,
     right_dip |-> rightdip, right_dip_smooth |-> rightdipsmooth,
     deep |-> deep]

\* the three grids SmoothedPlusDipProb.__init__ integrates over
dip_int_arrays(self) ==
    <<linspace(self.minval, Add(self.minval, self.bottom_smooth), NInt),
      linspace(self.left_dip, self.right_dip, NInt),
      linspace(Sub(self.maxval, self.top_smooth), self.maxval, NInt)>>

\* self.norm = 1 - self.integral_before_tot + self.integral_now_tot
dip_norm(self) ==
    Add(Sub(Fin(1),
            SumSeq([j \in 1..3 |->
                      integral_before(self.origin_prob, dip_int_arrays(self)[j])])),
        SumSeq([j \in 1..3 |-> dip_integral_now(self, dip_int_arrays(self)[j])]))

\* SmoothedPlusDipProb.__init__, up to self.norm
SmoothedPlusDipProb_init(originprob, bottomsmooth, topsmooth, leftdip, rightdip, leftdipsmooth, rightdipsmooth, deep) ==
    [f \in {"norm"} |->
        dip_norm(SmoothedPlusDipProb_fields(originprob, bottomsmooth, topsmooth,
                                            leftdip, rightdip, leftdipsmooth,
                                            rightdipsmooth, deep))]
    @@ SmoothedPlusDipProb_fields(originprob, bottomsmooth, topsmooth, leftdip,
                                  rightdip, leftdipsmooth, rightdipsmooth, deep)

\* SmoothedPlusDipProb._log_pdf
SmoothedPlusDipProb_log_pdf(self, x) ==
    LET highpass == highpass_filter(x, self.bottom, self.bottom_smooth)
        lowpass == lowpass_filter(x, self.top, self.top_smooth)
        notch == notch_filter(x, self.left_dip, self.left_dip_smooth,
                              self.right_dip, self.right_dip_smooth, self.deep)
    IN  SubLog(AddLog(AddLog(AddLog(log_pdf(self.origin_prob, x),
                                    xp_log(highpass)),
                             xp_log(lowpass)),
                      xp_log(notch)),
               xp_log(self.norm))

(***************************************************************************)
(* The tabulated cdf of the smoothed wrappers.  __init__ tabulates the     *)
(* cdf over a window on an np.linspace grid of 1000 points, at the middles *)
(* of its intervals; the model takes NTable points, so that the middles    *)
(* are the quarter points of the window.                                   *)
(***************************************************************************)
NTable ==
    3

\* the largest j with xp[j] <= x
interp_index(x, xp) ==
    CHOOSE j \in DOMAIN xp :
        Le(xp[j], x) /\ \A m \in DOMAIN xp : Le(xp[m], x) => m <= j

\* np.interp(x, xp, fp): fp[0] below xp[0], fp[-1] from xp[-1] on, and
\* between two points of xp the chord of fp
interp_at(x, xp, fp) ==
    CASE isnan(x) -> NaN
      [] Lt(x, xp[1]) -> fp[1]
      [] Ge(x, xp[Len(xp)]) -> fp[Len(fp)]
      [] OTHER ->
            LET j == interp_index(x, xp)
            IN  Add(Mul(Div(Sub(fp[j + 1], fp[j]), Sub(xp[j + 1], xp[j])),
                        Sub(x, xp[j])),
                    fp[j])

\* np.interp with its arrays evaluated once
interp(x, xp, fp) ==
    CHOOSE y \in {interp_at(x, xs, fs) : xs \in {xp}, fs \in {fp}} : TRUE

\* (x_eval[:-1:] + x_eval[1::]) * 0.5
midpoints(x_eval) ==
    [i \in 1..(Len(x_eval) - 1) |-> Mul(Add(x_eval[i], x_eval[i + 1]), Rat(1, 2))]

\* np.cumsum(y)
cumsum(y) ==
    [i \in DOMAIN y |-> SumSeq(SubSeq(y, 1, i))]

\* np.cumsum(self.pdf(middles)) * (x_eval[1::] - x_eval[:-1:])
cdf_numeric(self, x_eval) ==
    CHOOSE table \in {[i \in 1..(Len(x_eval) - 1) |->
                          Mul(sums[i], Sub(x_eval[i + 1], x_eval[i]))] :
                        sums \in {cumsum([m \in 1..(Len(x_eval) - 1) |->
                                             pdf(self, midpoints(x_eval)[m])])}} : TRUE

\* LowpassSmoothedProb.__init__ after self.norm: the integral under the
\* window and the tabulated cdf
LowpassSmoothedProb_table(self) ==
    [integral_now |->
        integral_now(self.origin_prob,
                     linspace(self.bottom, Add(self.bottom, self.bottom_smooth), NInt),
                     self.bottom, self.bottom_smooth),
     x_eval_cpu |-> linspace(self.bottom, Add(self.bottom, self.bottom_smooth), NTable),
     cdf_numeric_cpu |->
        cdf_numeric(self, linspace(self.bottom, Add(self.bottom, self.bottom_smooth),
                                   NTable))]
    @@ self

\* LowpassSmoothedProb._log_cdf: 0 below the window, the table inside it,
\* the cdf of the base distribution shifted and rescaled from its end on
LowpassSmoothedProb_toret(self, x, edge, origin_cdf) ==
    CASE Ge(x, edge) ->
            Div(Sub(Add(self.integral_now, origin_cdf[x]), origin_cdf[edge]),
                self.norm)
      [] Ge(x, self.bottom) /\ Le(x, edge) ->
            interp(x, midpoints(self.x_eval_cpu), self.cdf_numeric_cpu)
      [] Lt(x, self.bottom) -> Fin(0)
      [] OTHER -> Fin(1)

LowpassSmoothedProb_log_cdf(self, x) ==
    CHOOSE y \in {xp_log(LowpassSmoothedProb_toret(self, x, edge, origin_cdf)) :
                    edge \in {Add(self.bottom, self.bottom_smooth)},
                    origin_cdf \in {[p \in {x, Add(self.bottom, self.bottom_smooth)} |->
                                       cdf(self.origin_prob, p)]}} : TRUE

\* the three grids SmoothedPlusDipProb.__init__ tabulates its cdf on
dip_x_evals(self) ==
    <<linspace(self.bottom, Add(self.bottom, self.bottom_smooth), NTable),
      linspace(self.left_dip, self.right_dip, NTable),
      linspace(Sub(self.top, self.top_smooth), self.top, NTable)>>

\* SmoothedPlusDipProb.__init__: the integrals over the first two windows,
\* before and after the smoothing
dip_integrals(self) ==
    [integral_before |-> integral_before(self.origin_prob, dip_int_arrays(self)[1]),
     integral_now |-> dip_integral_now(self, dip_int_arrays(self)[1]),
     integral_before2 |-> integral_before(self.origin_prob, dip_int_arrays(self)[2]),
     integral_now2 |-> dip_integral_now(self, dip_int_arrays(self)[2])]
    @@ self

\* the cdf where the second and the third table start
dip_cdf_offsets_from(self, origin_cdf) ==
    <<Fin(0),
      Div(Sub(Add(self.integral_now, origin_cdf[1]), self.integral_before),
          self.norm),
      Div(Sub(Sub(Add(Add(self.integral_now, self.integral_now2), origin_cdf[2]),
                  self.integral_before),
              self.integral_before2),
          self.norm)>>

dip_cdf_offsets(self) ==
    CHOOSE offsets \in {dip_cdf_offsets_from(self, origin_cdf) :
                          origin_cdf \in {[t \in 1..2 |->
                              cdf(self.origin_prob,
                                  <<self.left_dip, Sub(self.top, self.top_smooth)>>[t])]}} :
        TRUE

\* cdf_numeric_cpu, cdf_numeric2_cpu and cdf_numeric3_cpu
dip_cdf_numerics(self) ==
    CHOOSE tables \in {[t \in 1..3 |->
                            [i \in 1..(NTable - 1) |->
                                Add(offsets[t], cdf_numeric(self, x_evals[t])[i])]] :
                         offsets \in {dip_cdf_offsets(self)},
                         x_evals \in {dip_x_evals(self)}} : TRUE

\* SmoothedPlusDipProb.__init__ after self.norm
SmoothedPlusDipProb_table(self) ==
    CHOOSE built \in {[x_evals |-> dip_x_evals(s), cdf_numerics |-> dip_cdf_numerics(s)]
                         @@ s : s \in {dip_integrals(self)}} : TRUE

\* SmoothedPlusDipProb._log_cdf: the assignments in the order of the code
SmoothedPlusDipProb_toret(self, x, edge, top_edge, origin_cdf) ==
    CASE Ge(x, top_edge) ->
            interp(x, midpoints(self.x_evals[3]), self.cdf_numerics[3])
      [] Ge(x, self.right_dip) /\ Lt(x, top_edge) ->
            Div(Sub(Sub(Add(Add(self.integral_now, self.integral_now2), origin_cdf),
                        self.integral_before),
                    self.integral_before2),
                self.norm)
      [] Ge(x, self.left_dip) /\ Lt(x, self.right_dip) ->
            interp(x, midpoints(self.x_evals[2]), self.cdf_numerics[2])
      [] Ge(x, edge) /\ Lt(x, self.left_dip) ->
            Div(Sub(Add(self.integral_now, origin_cdf), self.integral_before),
                self.norm)
      [] Ge(x, self.bottom) /\ Lt(x, edge) ->
            interp(x, midpoints(self.x_evals[1]), self.cdf_numerics[1])
      [] Lt(x, self.bottom) -> Fin(0)
      [] OTHER -> Fin(1)

SmoothedPlusDipProb_log_cdf(self, x) ==
    CHOOSE y \in {xp_log(SmoothedPlusDipProb_toret(self, x, edge, top_edge, origin_cdf)) :
                    edge \in {Add(self.bottom, self.bottom_smooth)},
                    top_edge \in {Sub(self.top, self.top_smooth)},
                    origin_cdf \in {cdf(self.origin_prob, x)}} : TRUE

Smoothed ==
    {"LowpassSmoothedProb", "SmoothedPlusDipProb"}

(***************************************************************************)
(* basic_1dimpdf.log_pdf and log_cdf: the class's own _log_pdf or          *)
(* _log_cdf, then the masking.                                             *)
(***************************************************************************)
\* self._log_pdf(x)
class_log_pdf(self, x) ==
    CASE self.cls = "PowerLaw" -> PowerLaw_log_pdf(self, x)
      [] self.cls \in {"BetaDistribution", "TruncatedBetaDistribution"} ->
            Beta_log_pdf(self, x)
      [] self.cls = "TruncatedGaussian" -> TruncatedGaussian_log_pdf(self, x)
      [] self.cls = "BrokenPowerLaw" -> BrokenPowerLaw_log_pdf(self, x)
      [] self.cls \in Mixtures -> Mixture_log_pdf(self, x)
      [] self.cls = "LowpassSmoothedProb" -> LowpassSmoothedProb_log_pdf(self, x)
      [] self.cls = "SmoothedPlusDipProb" -> SmoothedPlusDipProb_log_pdf(self, x)

\* self._log_cdf(x)
class_log_cdf(self, x) ==
    CASE self.cls = "PowerLaw" -> PowerLaw_log_cdf(self, x)
      [] self.cls = "BetaDistribution" -> BetaDistribution_log_cdf(self, x)
      [] self.cls = "TruncatedBetaDistribution" ->
            TruncatedBetaDistribution_log_cdf(self, x)
      [] self.cls = "TruncatedGaussian" -> TruncatedGaussian_log_cdf(self, x)
      [] self.cls = "BrokenPowerLaw" -> BrokenPowerLaw_log_cdf(self, x)
      [] self.cls \in Mixtures -> Mixture_log_cdf(self, x)
      [] self.cls = "LowpassSmoothedProb" -> LowpassSmoothedProb_log_cdf(self, x)
      [] self.cls = "SmoothedPlusDipProb" -> SmoothedPlusDipProb_log_cdf(self, x)

\* basic_1dimpdf.log_pdf
log_pdf(self, x) ==
    check_bound_pdf(self, x, class_log_pdf(self, x))

\* basic_1dimpdf.log_cdf
log_cdf(self, x) ==
    check_bound_cdf(self, x, class_log_cdf(self, x))

(***************************************************************************)
(* The distributions and the points of the model.  Bounds and means are    *)
(* whole numbers, the points multiples of 1/2, the widths of the windows   *)
(* 0, 1 or 2: a window is then met at its quarters and its middle.         *)
(***************************************************************************)
\* each set lists the constructor's arguments and builds the objects
PowerLaws ==
    {PowerLaw_init(p[1], p[2], p[3]) :
        p \in {<<Fin(1), Fin(5), 0>>, <<Fin(1), Fin(5), 1>>, <<Fin(1), Fin(5), -2>>,
               <<Fin(1), Fin(4), -1>>, <<Fin(2), Fin(8), -1>>,
               <<Fin(5), Fin(100), -2>>, <<Fin(1), Fin(9), 0>>}}

Betas ==
    {BetaDistribution_init(p[1], p[2]) : p \in {<<2, 2>>, <<1, 2>>, <<3, 2>>}}
    \cup {TruncatedBetaDistribution_init(2, 2, Rat(1, 2))}

Gaussians ==
    {TruncatedGaussian_init(Fin(3), Fin(1), p[1], p[2]) :
        p \in {<<Fin(1), Fin(5)>>, <<Fin(2), Fin(4)>>, <<Fin(3), Fin(5)>>}}

BrokenPowerLaws ==
    {BrokenPowerLaw_init(Fin(1), Fin(5), p[1], p[2], p[3]) :
        p \in {<<0, 0, Rat(1, 3)>>, <<-2, -2, Rat(1, 4)>>, <<1, -2, Rat(1, 2)>>,
               <<0, 1, Rat(1, 4)>>}}

\* the fractions lambda of the mixtures
Lambdas ==
    {Fin(0), Rat(1, 4), Rat(1, 2), Fin(1)}

PowerLawGaussians ==
    {PowerLawGaussian_init(p[1], Fin(5), p[2], p[3], Fin(3), Fin(1), Fin(1), p[4]) :
        p \in {<<Fin(1), 0, l, Fin(5)>> : l \in Lambdas}
               \cup {<<Fin(2), -2, Rat(1, 2), Fin(4)>>}}

TwoGaussians ==
    {PowerLawTwoGaussians_init(Fin(1), Fin(5), 1, p[1], p[2], Fin(3), Fin(1),
                               Fin(1), Fin(5), Fin(3), Fin(1), Fin(1), Fin(5)) :
        p \in {Rat(1, 2), Fin(1)} \X {Fin(0), Rat(1, 4)}}
    \cup
    {BrokenPowerLawMultiPeak_init(Fin(1), Fin(5), 0, 0, p[1], p[2], p[3], Fin(3),
                                  Fin(1), Fin(1), p[4], Fin(3), Fin(1), p[5],
                                  Fin(5)) :
        p \in {<<Rat(1, 3), Rat(1, 2), Rat(1, 4), Fin(5), Fin(1)>>,
               <<Rat(1, 3), Rat(1, 2), Fin(1), Fin(5), Fin(1)>>,
               <<Rat(1, 3), Rat(1, 4), Rat(1, 2), Fin(5), Fin(1)>>,
               <<Rat(1, 2), Rat(1, 4), Rat(1, 2), Fin(4), Fin(3)>>}}

TripleMultiPeaks ==
    {BrokenPowerLawTripleMultiPeak_init(Fin(1), Fin(5), 0, 0, Rat(1, 3), p[1],
                                        p[2], p[3], Fin(3), Fin(3), Fin(3), Fin(1)) :
        p \in {Fin(0), Rat(1, 2)} \X {Rat(1, 2), Fin(1)} \X {Rat(1, 2), Fin(1)}}

\* the base distributions of the wrappers
Bases ==
    {o \in PowerLaws : o.minval = Fin(1) /\ o.alpha \in {0, 1}}

SmoothedProbs ==
    {LowpassSmoothedProb_init(p[1], p[2]) :
        p \in {o \in Bases : o.maxval = Fin(5)} \X {Fin(0), Fin(2)}}
    \cup
    {SmoothedPlusDipProb_init(p[1], Fin(2), Fin(2), Fin(4), Fin(6), Fin(1),
                              Fin(1), p[2]) :
        p \in {o \in Bases : o.maxval = Fin(9)} \X {Rat(1, 2), Fin(1)}}

Distributions ==
    PowerLaws \cup Betas \cup Gaussians \cup BrokenPowerLaws
    \cup PowerLawGaussians \cup TwoGaussians \cup TripleMultiPeaks
    \cup SmoothedProbs

\* the points: every multiple of 1/2 from -1 to 10, the infinities and NaN
XGrid ==
    {Rat(i, 2) : i \in -2..20} \cup {NInf, PInf, NaN}

\* a power of two, 2^i for a whole i of either sign
IsPow2(q) ==
    /\ IsFin(q) /\ q.n > 0
    /\ \E i \in 0..7 : (q.n = 2^i /\ q.d = 1) \/ (q.d = 2^i /\ q.n = 1)

\* the classes that are not 1-D distributions
TwoDim ==
    {"conditional_2dimpdf", "massprior_BinModel2d", "SmoothedOwner"}

\* The power law of exponent -1 has ln(maxpl/minpl) for its normalisation:
\* the model evaluates its cdf where x/minpl is a power of two, so that the
\* quotient of the two logarithms is a fraction, and not its density.  The
\* tabulated cdf of the smoothed wrappers is not part of the model.
Evaluable(self, method, x) ==
    /\ self.cls \notin TwoDim
    /\ (self.cls = "PowerLaw" /\ self.alpha = -1) =>
          /\ method = "cdf"
          /\ (IsFin(x) /\ x.n > 0) => IsPow2(Div(x, self.minval))
    /\ (self.cls \in Smoothed) => method = "pdf"

\* the arguments of the window functions: the points around and inside a
\* window of width delta that starts at m, with the first and the last
\* inner point of a 1000-point grid over it
WindowPoints(m, delta) ==
    {Add(m, Mul(t, delta)) :
        t \in {Fin(0), Rat(1, 999), Rat(1, 4), Rat(1, 2), Rat(3, 4),
               Rat(998, 999), Fin(1)}}
    \cup {Sub(m, Fin(1)), Add(Add(m, delta), Fin(1)), NaN}

WindowWidths ==
    {Fin(0), Fin(1), Fin(2)}

DipDepths ==
    {Rat(1, 2), Fin(1)}

\* the exponents of the normalisation helpers
NormAlphas ==
    -3..2

NormBounds ==
    {<<Fin(1), Fin(4)>>, <<Fin(2), Fin(8)>>, <<Fin(5), Fin(100)>>}

\* the number of redshifts of the arrays PL_normfact_z works on
NRedshift ==
    2

(***************************************************************************)
(* priors.py: conditional_2dimpdf, the law of a pair (x1, x2) with         *)
(* x2 <= x1: x1 follows pdf1, x2 follows pdf2 cut at x1.                   *)
(***************************************************************************)
\* conditional_2dimpdf.__init__
conditional_2dimpdf_init(pdf1, pdf2) ==
    [cls |-> "conditional_2dimpdf", pdf1 |-> pdf1, pdf2 |-> pdf2]

\* check_bounds_2D(x1, x2, y): where x1 < x2 or y is NaN
check_bounds_2D(x1, x2, y) ==
    Lt(x1, x2) \/ isnan(y)

\* conditional_2dimpdf._check_bound_pdf
conditional_check_bound_pdf(self, x1, x2, y) ==
    IF check_bounds_2D(x1, x2, y) THEN NInf ELSE y

\* conditional_2dimpdf.log_pdf
conditional_log_pdf(self, x1, x2) ==
    conditional_check_bound_pdf(self, x1, x2,
        SubLog(AddLog(log_pdf(self.pdf1, x1), log_pdf(self.pdf2, x2)),
               log_cdf(self.pdf2, x1)))

\* the pairs of component distributions: equal bounds, pdf2 inside pdf1,
\* pdf1.minval below pdf2.minval, pdf1.maxval below pdf2.maxval
Conditionals ==
    {conditional_2dimpdf_init(p[1], p[2]) :
        p \in {o \in PowerLaws : o.alpha \in {0, 1} /\ o.minval = Fin(1)}
              \X ({o \in PowerLaws : o.alpha \in {0, -2} /\ o.maxval = Fin(5)}
                  \cup {o \in Gaussians : o.minval = Fin(2)})}

\* the points of a pair: the multiples of 1/2 from 0 to 6, the infinities
\* and NaN
PairGrid ==
    {Rat(i, 2) : i \in 0..12} \cup {NInf, PInf, NaN}

(***************************************************************************)
(* priors.py: piecewise_constant_2d_distribution_normalized, a density     *)
(* that is constant on the cells of a triangular grid x2 <= x1, and        *)
(* wrappers.py: massprior_BinModel2d, the mass model that builds it.       *)
(* Bins are numbered from 0 as in the code; weights[k + 1] is the weight   *)
(* of bin k.                                                               *)
(***************************************************************************)
\* the largest n_bins_1d of a model
MaxBins1d ==
    3

\* int(-1/2 + sqrt(1/4 + 2 n_bins)): the largest n with n (n + 1) / 2 <= n_bins
n_bins_1d_of(n_bins) ==
    CHOOSE n \in 0..n_bins : n * (n + 1) <= 2 * n_bins /\ (n + 1) * (n + 2) > 2 * n_bins

RECURSIVE triu_rows(_, _)
\* the rows r, r + 1, ..., n - 1 of xp.triu_indices(n, k=0), row after row
triu_rows(n, r) ==
    IF r >= n THEN <<>>
    ELSE [c \in 1..(n - r) |-> <<r, r + c - 1>>] \o triu_rows(n, r + 1)

\* xp.triu_indices(n, k=0): the (row, column) pairs of the upper triangle
triu_indices(n) ==
    triu_rows(n, 0)

\* a slip: the weights of the diagonal are not halved
compute_norm_NoHalf(self) ==
    Div(Div(Div(Fin(1), SumSeq(self.weights)), self.delta_bin_x1),
        self.delta_bin_x2)

\* compute_norm: the weights fill the upper triangle of a matrix in the
\* order of triu_indices, the diagonal is halved, the matrix is summed
compute_norm(self) ==
    LET upper_triangle_indices == triu_indices(self.n_bins_1d)
        weights_upper_triangle_matrix ==
            [k \in 1..Len(upper_triangle_indices) |->
                IF upper_triangle_indices[k][1] = upper_triangle_indices[k][2]
                THEN Mul(self.weights[k], Rat(1, 2))
                ELSE self.weights[k]]
    IN  Div(Div(Div(Fin(1), SumSeq(weights_upper_triangle_matrix)),
                self.delta_bin_x1),
            self.delta_bin_x2)

\* __init__ up to the normalisation
piecewise_constant_2d_fields(dist_min, dist_max, weights) ==
    [cls |-> "piecewise_constant_2d_distribution_normalized",
     dist_min |-> dist_min, dist_max |-> dist_max,
     n_bins |-> Len(weights), n_bins_1d |-> n_bins_1d_of(Len(weights)),
     weights |-> weights,
     delta_bin_x1 |-> Div(Sub(dist_max, dist_min), Fin(n_bins_1d_of(Len(weights)))),
     delta_bin_x2 |-> Div(Sub(dist_max, dist_min), Fin(n_bins_1d_of(Len(weights))))]

\* self.norm and self.weights_normalized = self.norm * self.weights
piecewise_constant_2d_normalized(self) ==
    [f \in {"norm"} |-> compute_norm(self)]
    @@ [f \in {"weights_normalized"} |->
           [k \in 1..Len(self.weights) |-> Mul(compute_norm(self), self.weights[k])]]
    @@ self

\* piecewise_constant_2d_distribution_normalized.__init__
piecewise_constant_2d_init(dist_min, dist_max, weights) ==
    piecewise_constant_2d_normalized(
        piecewise_constant_2d_fields(dist_min, dist_max, weights))

\* outside_domain_1d
outside_domain_1d(self, x) ==
    Lt(x, self.dist_min) \/ Gt(x, self.dist_max)

\* outside_domain_2d
outside_domain_2d(self, x1, x2) ==
    (outside_domain_1d(self, x1) \/ outside_domain_1d(self, x2)) \/ Lt(x1, x2)

\* a // b for a width b > 0: the floor of the quotient, NaN when a is not
\* finite
FloorDiv(a, b) ==
    IF IsFin(a) THEN Fin((a.n * b.d) \div (a.d * b.n)) ELSE NaN

\* determine_grid_position
determine_grid_position(self, x1, x2) ==
    <<FloorDiv(Sub(x1, self.dist_min), self.delta_bin_x1),
      FloorDiv(Sub(x2, self.dist_min), self.delta_bin_x2)>>

\* a slip: the triangle below the rows is not taken away
compute_flat_position_Square(self, position_in_grid) ==
    Add(position_in_grid[1], Mul(Fin(self.n_bins_1d), position_in_grid[2]))

\* compute_flat_position
compute_flat_position(self, position_in_grid) ==
    LET flat_position_in_square ==
            Add(position_in_grid[1], Mul(Fin(self.n_bins_1d), position_in_grid[2]))
        subtract_triangle_constraint ==
            Div(Mul(position_in_grid[2], Add(position_in_grid[2], Fin(1))), Fin(2))
    IN  Sub(flat_position_in_square, subtract_triangle_constraint)

\* xp.piecewise(positions_flat, [positions_flat == i for i in range(n_bins)],
\* weights_normalized): 0 where no condition holds
piecewise(self, positions_flat) ==
    IF \E i \in 0..(self.n_bins - 1) : Eq(positions_flat, Fin(i))
    THEN self.weights_normalized[(CHOOSE i \in 0..(self.n_bins - 1) :
                                     Eq(positions_flat, Fin(i))) + 1]
    ELSE Fin(0)

\* piecewise_constant_2d_distribution_normalized.pdf
piecewise_constant_2d_pdf(self, x1, x2) ==
    IF outside_domain_2d(self, x1, x2) THEN Fin(0)
    ELSE piecewise(self, compute_flat_position(self,
                             determine_grid_position(self, x1, x2)))

\* massprior_BinModel2d.__init__: the names of the bin parameters are
\* their numbers, no distribution is built yet
massprior_BinModel2d_init(n_bins_1d) ==
    [cls |-> "massprior_BinModel2d",
     bin_parameter_list |-> [i \in 1..((n_bins_1d * (n_bins_1d + 1)) \div 2) |-> i - 1],
     prior |-> None]

\* massprior_BinModel2d.update
massprior_BinModel2d_update(self, kwargs) ==
    [self EXCEPT !.prior =
        piecewise_constant_2d_init(kwargs.mmin, kwargs.mmax,
            [k \in 1..Len(self.bin_parameter_list) |->
                kwargs.bins[self.bin_parameter_list[k] + 1]])]

\* the values of the bin parameters: all equal, growing, falling, and with
\* empty bins; their sum is positive
BinWeights(n_bins) ==
    {[k \in 1..n_bins |-> Fin(1)], [k \in 1..n_bins |-> Fin(k)],
     [k \in 1..n_bins |-> Fin(n_bins + 1 - k)],
     [k \in 1..n_bins |-> Fin(k % 2)]}

\* the arguments of update: the bounds give a bin width of 1 or of 2
BinKwargs(self) ==
    {[mmin |-> b[1], mmax |-> Add(b[1], Fin(b[2] * n_bins_1d_of(Len(self.bin_parameter_list)))),
      bins |-> w] :
        b \in {<<Fin(0), 1>>, <<Fin(1), 2>>},
        w \in BinWeights(Len(self.bin_parameter_list))}

\* the points at which a binned density is asked: the edges and the middles
\* of the bins, a point on either side of the domain, the infinities and NaN
BinPoints(self) ==
    {Add(self.dist_min, Mul(Rat(t, 2), self.delta_bin_x1)) :
        t \in -1..(2 * self.n_bins_1d + 1)}
    \cup {NInf, PInf, NaN}

\* the cells of the triangular grid: (i, j) with 0 <= j <= i < n
Triangle(n) ==
    {p \in (0..(n - 1)) \X (0..(n - 1)) : p[2] <= p[1]}

(***************************************************************************)
(* basic_1dimpdf.sample, for one uniform variate.  The code inverts the    *)
(* cdf on an np.linspace grid of 10000 points; the model takes NSample     *)
(* points.                                                                 *)
(***************************************************************************)
NSample ==
    5

\* basic_1dimpdf.sample: np.interp(randomcdf, cdfeval, sarray)
basic_1dimpdf_sample(self, randomcdf) ==
    CHOOSE x \in {interp(randomcdf, [i \in 1..NSample |-> cdf(self, sarray[i])], sarray) :
                    sarray \in {linspace(self.minval, self.maxval, NSample)}} : TRUE

\* the values np.random.rand returns: 0 <= u < 1
Uniforms ==
    {Fin(0), Rat(1, 4), Rat(1, 2), Rat(3, 4)}

(***************************************************************************)
(* A smoothed wrapper and the distribution object its caller built it      *)
(* from.  Objects live in a heap and are named by their place in it:       *)
(* heap[1] is the caller's object, which the caller may change later, and  *)
(* the wrapper's origin_prob is the place of the object the wrapper uses.  *)
(***************************************************************************)
\* a slip: the object itself is kept, no copy is made
deepcopy_Alias(heap, ref) ==
    [heap |-> heap, ref |-> ref]

\* copy.deepcopy(originprob): a new object with the same content
deepcopy(heap, ref) ==
    [heap |-> Append(heap, heap[ref]), ref |-> Len(heap) + 1]

\* the whole of __init__ of a smoothed wrapper, from the fields up to
\* self.norm on
smoothed_table(w) ==
    IF w.cls = "LowpassSmoothedProb" THEN LowpassSmoothedProb_table(w)
    ELSE SmoothedPlusDipProb_table(w)

\* the caller's object and the wrapper w built from it; built is the wrapper
\* as its constructor left it, with the content of its base distribution
SmoothedOwner_init(w) ==
    CHOOSE owner \in {[cls |-> "SmoothedOwner",
                       heap |-> copy.heap,
                       wrapper |-> [built EXCEPT !.origin_prob = copy.ref],
                       built |-> built] :
                        copy \in {deepcopy(<<w.origin_prob>>, 1)},
                        built \in {smoothed_table(w)}} : TRUE

\* the wrapper with the object it uses in the place of its name
Resolve(owner) ==
    [owner.wrapper EXCEPT !.origin_prob = owner.heap[owner.wrapper.origin_prob]]

SmoothedOwners ==
    {SmoothedOwner_init(w) : w \in SmoothedProbs}

(***************************************************************************)
(* The calls on a distribution and on the functions of priors.py.  A       *)
(* behaviour either builds one distribution and calls its methods, or      *)
(* builds none and calls the functions of the module.                      *)
(***************************************************************************)
\* an evaluator that nobody calls, while the distributions are evaluated
IdleConfig ==
    [cls |-> "hierarchical_likelihood", neffPE |-> Fin(DefaultNeffPE),
     neffINJ |-> None, thr |-> None, scale_free |-> FALSE, d |-> 0]

InitPriors ==
    /\ conc = FALSE
    /\ InitObjects(IdleConfig)
    /\ \/ \E o \in Distributions \cup Conditionals \cup {None} :
             prior = [NoPrior EXCEPT !.obj = o, !.call = "init"]
       \/ \E n_bins_1d \in 1..MaxBins1d :
             prior = [NoPrior EXCEPT !.obj = massprior_BinModel2d_init(n_bins_1d),
                                     !.call = "init", !.args = <<n_bins_1d>>]

Called(name, args, out) ==
    /\ prior.n < MaxEvals
    /\ prior' = [prior EXCEPT !.call = name, !.args = args, !.out = out,
                               !.n = @ + 1]
    /\ UNCHANGED <<cfg, conc, lik, rate_model, injections,
                   posterior_samples_dict, wk, obs>>

LogPdf ==
    \E x \in XGrid :
        /\ prior.obj # None
        /\ Evaluable(prior.obj, "pdf", x)
        /\ Called("log_pdf", <<x>>, log_pdf(prior.obj, x))

LogCdf ==
    \E x \in XGrid :
        /\ prior.obj # None
        /\ Evaluable(prior.obj, "cdf", x)
        /\ Called("log_cdf", <<x>>, log_cdf(prior.obj, x))

Pdf ==
    \E x \in XGrid :
        /\ prior.obj # None
        /\ Evaluable(prior.obj, "pdf", x)
        /\ Called("pdf", <<x>>, pdf(prior.obj, x))

Cdf ==
    \E x \in XGrid :
        /\ prior.obj # None
        /\ Evaluable(prior.obj, "cdf", x)
        /\ Called("cdf", <<x>>, cdf(prior.obj, x))

HighpassFilter ==
    \E mmin \in {Fin(1)}, delta_m \in WindowWidths :
        \E mass \in WindowPoints(mmin, delta_m) :
            /\ prior.obj = None
            /\ Called("highpass_filter", <<mass, mmin, delta_m>>,
                   highpass_filter(mass, mmin, delta_m))

LowpassFilter ==
    \E mmax \in {Fin(4)}, delta_max \in WindowWidths :
        \E mass \in WindowPoints(Sub(mmax, delta_max), delta_max) :
            /\ prior.obj = None
            /\ Called("lowpass_filter", <<mass, mmax, delta_max>>,
                   lowpass_filter(mass, mmax, delta_max))

NotchFilter ==
    \E mlow \in {Fin(1)}, mhigh \in {Fin(6)}, A \in DipDepths :
        \E delta_low \in WindowWidths, delta_high \in WindowWidths :
            \E mass \in WindowPoints(mlow, delta_low)
                        \cup WindowPoints(Sub(mhigh, delta_high), delta_high) :
                /\ prior.obj = None
                /\ Called("notch_filter",
                          <<mass, mlow, delta_low, mhigh, delta_high, A>>,
                          notch_filter(mass, mlow, delta_low, mhigh, delta_high, A))

NormFact ==
    \E b \in NormBounds, alpha \in NormAlphas :
        /\ prior.obj = None
        /\ Called("PL_normfact", <<b[1], b[2], Fin(alpha)>>,
               PL_normfact(b[1], b[2], alpha))

NormFactZ ==
    \E b \in NormBounds, alpha \in [1..NRedshift -> NormAlphas] :
        /\ prior.obj = None
        /\ Called("PL_normfact_z",
               <<[i \in 1..NRedshift |-> b[1]], [i \in 1..NRedshift |-> b[2]],
                 [i \in 1..NRedshift |-> Fin(alpha[i])]>>,
               PL_normfact_z([i \in 1..NRedshift |-> b[1]],
                             [i \in 1..NRedshift |-> b[2]], alpha))

ConditionalLogPdf ==
    \E x1 \in PairGrid, x2 \in PairGrid :
        /\ prior.obj # None
        /\ prior.obj.cls = "conditional_2dimpdf"
        /\ Called("conditional_log_pdf", <<x1, x2>>,
                  conditional_log_pdf(prior.obj, x1, x2))

\* update of a mass model; args keeps the argument of the constructor
BinUpdate ==
    /\ prior.obj # None
    /\ prior.obj.cls = "massprior_BinModel2d"
    /\ prior.obj.prior = None
    /\ \E kwargs \in BinKwargs(prior.obj) :
          prior' = [prior EXCEPT !.obj = massprior_BinModel2d_update(prior.obj, kwargs),
                                 !.call = "update",
                                 !.args = <<prior.args[1], kwargs>>]
    /\ UNCHANGED <<cfg, conc, lik, rate_model, injections,
                   posterior_samples_dict, wk, obs>>

\* compute_flat_position on every cell of the triangular grid
FlatPositions ==
    /\ prior.obj # None
    /\ prior.obj.cls = "massprior_BinModel2d"
    /\ prior.obj.prior # None
    /\ Called("compute_flat_position", <<>>,
              [p \in Triangle(prior.obj.prior.n_bins_1d) |->
                  compute_flat_position(prior.obj.prior, <<Fin(p[1]), Fin(p[2])>>)])

BinPdf ==
    /\ prior.obj # None
    /\ prior.obj.cls = "massprior_BinModel2d"
    /\ prior.obj.prior # None
    /\ \E x1 \in BinPoints(prior.obj.prior), x2 \in BinPoints(prior.obj.prior) :
          Called("bin_pdf", <<x1, x2>>,
                 piecewise_constant_2d_pdf(prior.obj.prior, x1, x2))

\* the caller changes the attributes of the distribution it built the
\* wrapper from
MutateBase ==
    /\ prior.obj # None
    /\ prior.obj.cls = "SmoothedOwner"
    /\ prior.call = "init"
    /\ \E b \in Bases \ {prior.obj.heap[1]} :
          prior' = [prior EXCEPT !.obj = [prior.obj EXCEPT !.heap[1] = b],
                                 !.call = "mutate", !.args = <<b>>]
    /\ UNCHANGED <<cfg, conc, lik, rate_model, injections,
                   posterior_samples_dict, wk, obs>>

WrapperPdf ==
    \E x \in XGrid :
        /\ prior.obj # None
        /\ prior.obj.cls = "SmoothedOwner"
        /\ \E w \in {Resolve(prior.obj)} : Called("wrapper_pdf", <<x>>, pdf(w, x))

WrapperCdf ==
    \E x \in XGrid :
        /\ prior.obj # None
        /\ prior.obj.cls = "SmoothedOwner"
        /\ \E w \in {Resolve(prior.obj)} : Called("wrapper_cdf", <<x>>, cdf(w, x))

WrapperSample ==
    \E u \in Uniforms :
        /\ prior.obj # None
        /\ prior.obj.cls = "SmoothedOwner"
        /\ \E w \in {Resolve(prior.obj)} :
              Called("wrapper_sample", <<u>>, basic_1dimpdf_sample(w, u))

NextPriors ==
    \/ LogPdf
    \/ LogCdf
    \/ Pdf
    \/ Cdf
    \/ HighpassFilter
    \/ LowpassFilter
    \/ NotchFilter
    \/ NormFact
    \/ NormFactZ
    \/ ConditionalLogPdf
    \/ BinUpdate
    \/ FlatPositions
    \/ BinPdf

SpecPriors ==
    InitPriors /\ [][NextPriors]_vars

(***************************************************************************)
(* A caller that builds a smoothed wrapper from a distribution, then       *)
(* changes the distribution and calls the wrapper.                         *)
(***************************************************************************)
InitWrappers ==
    /\ conc = FALSE
    /\ InitObjects(IdleConfig)
    /\ \E o \in SmoothedOwners : prior = [NoPrior EXCEPT !.obj = o, !.call = "init"]

NextWrappers ==
    \/ MutateBase
    \/ WrapperPdf
    \/ WrapperCdf
    \/ WrapperSample

SpecWrappers ==
    InitWrappers /\ [][NextWrappers]_vars

(***************************************************************************)
(* C12                                                                     *)
(***************************************************************************)
\* the point of the last call is below, above or inside the bounds
BelowBounds ==
    Lt(prior.args[1], prior.obj.minval)

AboveBounds ==
    Gt(prior.args[1], prior.obj.maxval)

\* C12: outside [minval, maxval] log_pdf is -infinity and pdf is 0; below
\* minval log_cdf is -infinity and cdf is 0; above maxval log_cdf is 0 and
\* cdf is 1; at a point inside the bounds each returns the value the
\* concrete distribution computes there.
C12_BoundMasking ==
    /\ prior.call = "log_pdf" =>
          prior.out = IF BelowBounds \/ AboveBounds THEN NInf
                      ELSE class_log_pdf(prior.obj, prior.args[1])
    /\ prior.call = "pdf" =>
          prior.out = IF BelowBounds \/ AboveBounds THEN Fin(0)
                      ELSE xp_exp(class_log_pdf(prior.obj, prior.args[1]))
    /\ prior.call = "log_cdf" =>
          prior.out = IF BelowBounds THEN NInf
                      ELSE IF AboveBounds THEN Fin(0)
                      ELSE class_log_cdf(prior.obj, prior.args[1])
    /\ prior.call = "cdf" =>
          prior.out = IF BelowBounds THEN Fin(0)
                      ELSE IF AboveBounds THEN Fin(1)
                      ELSE xp_exp(class_log_cdf(prior.obj, prior.args[1]))

\* a density that is positive inside the bounds was asked above them
C12_Witness ==
    /\ prior.call = "log_pdf"
    /\ AboveBounds
    /\ prior.out = NInf
    /\ Gt(xp_exp(class_log_pdf(prior.obj, prior.obj.maxval)), Fin(0))

(***************************************************************************)
(* C13                                                                     *)
(***************************************************************************)
\* the points of the grid inside the bounds of the distribution, up to x
InsideUpTo(x) ==
    {y \in XGrid : /\ IsFin(y)
                   /\ Ge(y, prior.obj.minval)
                   /\ Le(y, x)
                   /\ Evaluable(prior.obj, "cdf", y)}

\* C13: for every analytic distribution and mixture cdf(minval) = 0,
\* cdf(maxval) = 1, and cdf is non-decreasing over [minval, maxval]: the
\* value at a point is at least the value at every point before it.
C13_CdfEndpointsMonotone ==
    (prior.call = "cdf" /\ IsFin(prior.args[1])
        /\ ~BelowBounds /\ ~AboveBounds) =>
        /\ prior.args[1] = prior.obj.minval => prior.out = Fin(0)
        /\ prior.args[1] = prior.obj.maxval => prior.out = Fin(1)
        /\ \A y \in InsideUpTo(prior.args[1]) : Le(cdf(prior.obj, y), prior.out)

\* the cdf of a mixture strictly between 0 and 1, at a point strictly
\* inside the bounds that has points of the grid before it
C13_Witness ==
    /\ prior.call = "cdf"
    /\ prior.obj.cls \in Mixtures
    /\ IsFin(prior.args[1])
    /\ Gt(prior.args[1], prior.obj.minval)
    /\ Lt(prior.args[1], prior.obj.maxval)
    /\ Gt(prior.out, Fin(0))
    /\ Lt(prior.out, Fin(1))
    /\ \E y \in InsideUpTo(prior.args[1]) :
          /\ Lt(y, prior.args[1])
          /\ Lt(cdf(prior.obj, y), prior.out)

(***************************************************************************)
(* C14                                                                     *)
(***************************************************************************)
\* the weights _log_pdf gives the components of a mixture
pdf_weights(self) ==
    [i \in 1..Len(Components(self)) |-> xp_exp(pdf_log_weights(self)[i])]

\* the weights of _log_pdf sum to 1 and are the weights of _log_cdf
WeightsAgree(self) ==
    /\ SumSeq(pdf_weights(self)) = Fin(1)
    /\ SumSeq(cdf_weights(self)) = Fin(1)
    /\ pdf_weights(self) = cdf_weights(self)

\* C14: every mixture combines its components with weights that sum to 1,
\* and log_pdf and log_cdf of the same mixture give each component the same
\* weight.
C14_MixtureWeights ==
    (prior.obj # None /\ prior.obj.cls \in Mixtures
        /\ prior.call \in {"log_pdf", "log_cdf"}) => WeightsAgree(prior.obj)

(***************************************************************************)
(* C15                                                                     *)
(***************************************************************************)
\* the step of the quadrature: the step of the points of the model
QuadStep ==
    Rat(1, 2)

\* the nodes from minval to maxval
QuadNodes(self) ==
    LET n == Div(Sub(self.maxval, self.minval), QuadStep).n + 1
    IN  linspace(self.minval, self.maxval, n)

\* the integral of pdf over [minval, maxval] by the trapezoid rule
Integral(self) ==
    LET x == QuadNodes(self)
    IN  trapz([i \in 1..Len(x) |-> pdf(self, x[i])], x)

RECURSIVE GridExact(_)
\* The distributions the trapezoid rule on these nodes integrates without
\* error: a density that is linear between the nodes (a power law of
\* exponent 0 or 1, a broken power law of exponents 0 whose break is not a
\* node), the tabulated Gaussian, a mixture of such over the same bounds,
\* and a wrapper whose windows have their nodes among these and whose
\* constructor integrates by the same rule.
GridExact(self) ==
    CASE self.cls = "PowerLaw" -> self.alpha \in {0, 1}
      [] self.cls = "BrokenPowerLaw" ->
            /\ self.alpha_1 = 0 /\ self.alpha_2 = 0
            /\ \A i \in DOMAIN QuadNodes(self) :
                  QuadNodes(self)[i] # self.break_point
      [] self.cls = "TruncatedGaussian" -> TRUE
      [] self.cls \in Mixtures ->
            \A i \in 1..Len(Components(self)) :
                /\ GridExact(Components(self)[i])
                /\ Components(self)[i].minval = self.minval
                /\ Components(self)[i].maxval = self.maxval
      [] self.cls \in Smoothed -> GridExact(self.origin_prob)
      [] OTHER -> FALSE

\* C15: for every analytic distribution and every smoothed wrapper around
\* one, the integral of pdf over [minval, maxval] equals 1.
C15_IntegralIsOne ==
    (prior.obj # None /\ prior.call = "pdf" /\ GridExact(prior.obj)) =>
        Integral(prior.obj) = Fin(1)

(***************************************************************************)
(* C16                                                                     *)
(***************************************************************************)
\* the last call is _highpass_filter(x, min, delta) with delta > 0 and x
\* strictly inside the window
InHighpassWindow ==
    /\ prior.call = "highpass_filter"
    /\ Gt(prior.args[3], Fin(0))
    /\ Gt(prior.args[1], prior.args[2])
    /\ Lt(prior.args[1], Add(prior.args[2], prior.args[3]))

\* delta/(x-min) + delta/(x-min-delta), the exponent inside the window
WindowExponent ==
    LET mprime == Sub(prior.args[1], prior.args[2])
    IN  Add(Div(prior.args[3], mprime),
            Div(prior.args[3], Sub(mprime, prior.args[3])))

\* what the function returns at and outside the ends of the window, and
\* everywhere when delta = 0
HighpassOutside ==
    prior.call = "highpass_filter" =>
        /\ prior.args[3] = Fin(0) => prior.out = Fin(1)
        /\ (Gt(prior.args[3], Fin(0)) /\ Le(prior.args[1], prior.args[2])) =>
              prior.out = Fin(0)
        /\ (Gt(prior.args[3], Fin(0))
              /\ Ge(prior.args[1], Add(prior.args[2], prior.args[3]))) =>
              prior.out = Fin(1)

NotchBelow ==
    prior.call = "notch_filter" /\ Le(prior.args[1], prior.args[2])

NotchAbove ==
    prior.call = "notch_filter" /\ Ge(prior.args[1], prior.args[4])

NotchBand ==
    /\ prior.call = "notch_filter"
    /\ Ge(prior.args[1], Add(prior.args[2], prior.args[3]))
    /\ Le(prior.args[1], Sub(prior.args[4], prior.args[5]))

\* the last call is log_pdf of a SmoothedPlusDipProb of depth 1, at a point
\* of the band between the two windows of its dip
DipBand ==
    /\ prior.call = "log_pdf"
    /\ prior.obj.cls = "SmoothedPlusDipProb"
    /\ prior.obj.deep = Fin(1)
    /\ Ge(prior.args[1], Add(prior.obj.left_dip, prior.obj.left_dip_smooth))
    /\ Le(prior.args[1], Sub(prior.obj.right_dip, prior.obj.right_dip_smooth))

\* C17 as stated: the notch is exactly 1 for x <= left and for x >= right,
\* exactly 1-depth in the band, and with depth = 1 the log_pdf of
\* SmoothedPlusDipProb in the band is -infinity.
C17_Original ==
    /\ NotchBelow => prior.out = Fin(1)
    /\ NotchAbove => prior.out = Fin(1)
    /\ NotchBand => prior.out = Sub(Fin(1), prior.args[6])
    /\ DipBand => prior.out = NInf

\* C17, amended: the notch is exactly 1 for x <= left when dleft > 0 and
\* for x >= right when dright > 0; a side of width 0 has no window, and the
\* notch is 1-depth there as in the band; in the band it is exactly
\* 1-depth, and with depth = 1 the log_pdf of SmoothedPlusDipProb in the
\* band is -infinity.
C17_NotchDip ==
    /\ NotchBelow =>
          prior.out = IF Gt(prior.args[3], Fin(0)) THEN Fin(1)
                      ELSE Sub(Fin(1), prior.args[6])
    /\ NotchAbove =>
          prior.out = IF Gt(prior.args[5], Fin(0)) THEN Fin(1)
                      ELSE Sub(Fin(1), prior.args[6])
    /\ NotchBand => prior.out = Sub(Fin(1), prior.args[6])
    /\ DipBand => prior.out = NInf

\* below a dip whose left side has width 0 and whose depth is 1, the notch
\* returned 0
C17_Witness ==
    /\ NotchBelow
    /\ Lt(prior.args[1], prior.args[2])
    /\ prior.args[3] = Fin(0)
    /\ prior.args[6] = Fin(1)
    /\ prior.out = Fin(0)

\* the density of a dip of depth 1 was asked in its band
C17_WitnessDip ==
    DipBand /\ prior.out = NInf

(***************************************************************************)
(* C18                                                                     *)
(***************************************************************************)
\* the normalisation of a power law of exponent alpha on [minpl, maxpl]
\* as the specification gives it
NormOf(minpl, maxpl, alpha) ==
    IF alpha = Fin(-1) THEN xp_log(Div(maxpl, minpl))
    ELSE Div(Sub(np_power(maxpl, alpha.n + 1), np_power(minpl, alpha.n + 1)),
             Fin(alpha.n + 1))

\* C18: PL_normfact, for a scalar alpha, and PL_normfact_z, for an array,
\* return log(max/min) where alpha = -1 and
\* (max^(alpha+1) - min^(alpha+1))/(alpha+1) elsewhere: the division by
\* alpha+1 is never evaluated with alpha = -1.
C18_NormFactSpecialCase ==
    /\ prior.call = "PL_normfact" =>
          prior.out = NormOf(prior.args[1], prior.args[2], prior.args[3])
    /\ prior.call = "PL_normfact_z" =>
          \A i \in DOMAIN prior.out :
              prior.out[i] = NormOf(prior.args[1][i], prior.args[2][i],
                                    prior.args[3][i])

\* the scalar helper alone does as C18 says
C18_ScalarOnly ==
    prior.call = "PL_normfact" =>
        prior.out = NormOf(prior.args[1], prior.args[2], prior.args[3])

(***************************************************************************)
(* C19                                                                     *)
(***************************************************************************)
\* the last call is pdf of a BrokenPowerLaw at a point inside its bounds
BrokenPdfCall ==
    /\ prior.call = "pdf"
    /\ prior.obj.cls = "BrokenPowerLaw"
    /\ IsFin(prior.args[1])
    /\ ~BelowBounds /\ ~AboveBounds

\* the density of the first segment at x, after normalisation
FirstSegment(self, x) ==
    Div(pdf(self.PL1, x), self.norm_fact)

\* the density of the second segment at x, rescaled to meet the first at
\* the break, after normalisation
SecondSegment(self, x) ==
    Div(Mul(pdf(self.PL2, x),
            Div(pdf(self.PL1, self.break_point), pdf(self.PL2, self.break_point))),
        self.norm_fact)

\* C19: BrokenPowerLaw is continuous at its break point: the two segments
\* agree there after normalisation, and pdf(break_point) is the value both
\* approach; every x of [minpl, maxpl] is counted by exactly one segment.
C19_ContinuousAtBreak ==
    BrokenPdfCall =>
        /\ FirstSegment(prior.obj, prior.obj.break_point)
              = SecondSegment(prior.obj, prior.obj.break_point)
        /\ prior.out = IF Le(prior.args[1], prior.obj.break_point)
                       THEN FirstSegment(prior.obj, prior.args[1])
                       ELSE SecondSegment(prior.obj, prior.args[1])

\* away from the break point the density is that of one segment
C19_AwayFromBreak ==
    (BrokenPdfCall /\ prior.args[1] # prior.obj.break_point) =>
        prior.out = IF Lt(prior.args[1], prior.obj.break_point)
                    THEN FirstSegment(prior.obj, prior.args[1])
                    ELSE SecondSegment(prior.obj, prior.args[1])

\* at the break point the density is the sum of the two segments
C19_DoubledAtBreak ==
    (BrokenPdfCall /\ prior.args[1] = prior.obj.break_point) =>
        prior.out = Mul(Fin(2), FirstSegment(prior.obj, prior.args[1]))

(***************************************************************************)
(* C20                                                                     *)
(***************************************************************************)
\* the last call is pdf(10) of PowerLaw(min=5, max=100, alpha=-2)
ConcretePowerLawCall ==
    /\ prior.call = "pdf"
    /\ prior.obj.cls = "PowerLaw"
    /\ prior.obj.minpl = Fin(5)
    /\ prior.obj.maxpl = Fin(100)
    /\ prior.obj.alpha = -2
    /\ prior.args[1] = Fin(10)

\* a is b to three significant digits after rounding: within half a unit
\* of the last digit given, the unit being 1/scale
Approx(a, b, scale) ==
    /\ Ge(a, Sub(b, Rat(1, 2 * scale)))
    /\ Le(a, Add(b, Rat(1, 2 * scale)))

\* C20 as stated: for PowerLaw(5, 100, -2) the normalisation factor is
\* 0.0190 and pdf(10) is approximately 0.526.
C20_Original ==
    ConcretePowerLawCall =>
        /\ Approx(prior.obj.norm_fact, Rat(190, 10000), 10000)
        /\ Approx(prior.out, Rat(526, 1000), 1000)

\* C20, amended: for PowerLaw(5, 100, -2) the normalisation factor
\* (100^-1 - 5^-1)/-1 is 0.19 and pdf(10) = 10^-2/0.19 is 1/19,
\* approximately 0.0526.
C20_ConcretePowerLaw ==
    ConcretePowerLawCall =>
        /\ prior.obj.norm_fact = Rat(19, 100)
        /\ prior.out = Rat(1, 19)
        /\ Approx(prior.out, Rat(526, 10000), 10000)

\* pdf(10) of that power law was asked and is positive
C20_Witness ==
    ConcretePowerLawCall /\ Gt(prior.out, Fin(0))

(***************************************************************************)
(* C21                                                                     *)
(***************************************************************************)
\* the last call is conditional_2dimpdf.log_pdf(x1, x2)
ConditionalCall ==
    prior.call = "conditional_log_pdf"

\* x is within the bounds of the distribution d
WithinBounds(d, x) ==
    Ge(x, d.minval) /\ Le(x, d.maxval)

\* both coordinates of the last call are within their distribution's bounds
BothWithin ==
    /\ WithinBounds(prior.obj.pdf1, prior.args[1])
    /\ WithinBounds(prior.obj.pdf2, prior.args[2])

\* a finite value: a rational or the logarithm of one
IsFinite(a) ==
    a.k \in {"fin", "lfin"}

\* C21: conditional_2dimpdf.log_pdf(x1, x2) equals pdf1.log_pdf(x1) +
\* pdf2.log_pdf(x2) - pdf2.log_cdf(x1) wherever x2 <= x1 and both
\* coordinates are within their distribution's bounds, is -infinity
\* wherever x2 > x1 or a coordinate is out of bounds, and for every input
\* (x1 = x2 = pdf2.minval included) is a finite value or -infinity, never
\* NaN or +infinity.
C21_ConditionalLogPdf ==
    ConditionalCall =>
        /\ (Le(prior.args[2], prior.args[1]) /\ BothWithin) =>
              prior.out = SubLog(AddLog(log_pdf(prior.obj.pdf1, prior.args[1]),
                                        log_pdf(prior.obj.pdf2, prior.args[2])),
                                 log_cdf(prior.obj.pdf2, prior.args[1]))
        /\ (Gt(prior.args[2], prior.args[1]) \/ ~BothWithin) => prior.out = NInf
        /\ IsFinite(prior.out) \/ prior.out = NInf

\* the degenerate point: both coordinates at the lower bound of pdf2, which
\* is within the bounds of pdf1
AtLowerCorner ==
    /\ prior.args[1] = prior.obj.pdf2.minval
    /\ prior.args[2] = prior.obj.pdf2.minval
    /\ WithinBounds(prior.obj.pdf1, prior.args[1])

\* away from the degenerate point the whole of C21 holds
C21_AwayFromCorner ==
    (ConditionalCall /\ ~AtLowerCorner) => C21_ConditionalLogPdf

\* at the degenerate point the result is +infinity
C21_InfiniteAtCorner ==
    (ConditionalCall /\ AtLowerCorner) => prior.out = PInf

\* a finite log-density at an inner pair, and a call at the degenerate point
C21_WitnessInner ==
    /\ ConditionalCall
    /\ Lt(prior.args[2], prior.args[1])
    /\ BothWithin
    /\ IsFinite(prior.out)

C21_WitnessCorner ==
    ConditionalCall /\ AtLowerCorner

(***************************************************************************)
(* C22                                                                     *)
(***************************************************************************)
\* the distribution of the mass model of the state
BinDist ==
    prior.obj.prior

\* the bins whose weight compute_norm halves: with all the weight in such a
\* bin the sum is 1/2, and the normalisation 2 over the area of a cell
HalvedBins(self) ==
    {k \in 0..(self.n_bins - 1) :
        compute_norm([self EXCEPT !.weights =
                         [m \in 1..self.n_bins |-> IF m = k + 1 THEN Fin(1) ELSE Fin(0)]])
        = Div(Div(Fin(2), self.delta_bin_x1), self.delta_bin_x2)}

\* C22: for every n = n_bins_1d >= 1 the flat-index map
\* (i, j) -> i + n j - j (j + 1) / 2 is a bijection from the triangular grid
\* {(i, j) : 0 <= j <= i < n} onto {0, ..., n (n + 1) / 2 - 1}, and the flat
\* indices of the diagonal cells i = j are exactly the weights that
\* compute_norm halves.
C22_FlatIndexBijection ==
    prior.call = "compute_flat_position" =>
        LET n == BinDist.n_bins_1d
            flat == prior.out
        IN  /\ n >= 1
            /\ DOMAIN flat = Triangle(n)
            /\ \A p \in Triangle(n) :
                  \E k \in 0..((n * (n + 1)) \div 2 - 1) : flat[p] = Fin(k)
            /\ \A p, q \in Triangle(n) : flat[p] = flat[q] => p = q
            /\ \A k \in 0..((n * (n + 1)) \div 2 - 1) :
                  \E p \in Triangle(n) : flat[p] = Fin(k)
            /\ {flat[p] : p \in {q \in Triangle(n) : q[1] = q[2]}}
               = {Fin(k) : k \in HalvedBins(BinDist)}

\* the map was computed for a grid with cells off the diagonal
C22_Witness ==
    /\ prior.call = "compute_flat_position"
    /\ BinDist.n_bins_1d = MaxBins1d
    /\ prior.out[<<MaxBins1d - 1, 1>>] = Fin(2 * MaxBins1d - 2)
    /\ Cardinality(HalvedBins(BinDist)) = MaxBins1d

(***************************************************************************)
(* C23                                                                     *)
(***************************************************************************)
\* the last call is pdf(x1, x2) of the binned distribution
BinPdfCall ==
    prior.call = "bin_pdf"

\* the point of the last call has dist_min <= x2 <= x1 <= dist_max
InTriangle ==
    /\ Le(BinDist.dist_min, prior.args[2])
    /\ Le(prior.args[2], prior.args[1])
    /\ Le(prior.args[1], BinDist.dist_max)

\* the point of the last call is off the domain: a coordinate outside
\* [dist_min, dist_max], or x1 < x2
OffDomain ==
    \/ Lt(prior.args[1], BinDist.dist_min) \/ Gt(prior.args[1], BinDist.dist_max)
    \/ Lt(prior.args[2], BinDist.dist_min) \/ Gt(prior.args[2], BinDist.dist_max)
    \/ Lt(prior.args[1], prior.args[2])

\* x lies in the k-th interval of the grid, its two edges included
InBin(x, k) ==
    /\ Le(Add(BinDist.dist_min, Mul(Fin(k), BinDist.delta_bin_x1)), x)
    /\ Le(x, Add(BinDist.dist_min, Mul(Fin(k + 1), BinDist.delta_bin_x1)))

\* the normalized weights of the bins whose cell contains the point
WeightsAtPoint ==
    {BinDist.weights_normalized[p[1] + BinDist.n_bins_1d * p[2]
                                - (p[2] * (p[2] + 1)) \div 2 + 1] :
        p \in {q \in Triangle(BinDist.n_bins_1d) :
                  InBin(prior.args[1], q[1]) /\ InBin(prior.args[2], q[2])}}

\* C23: pdf(x1, x2) returns 0 whenever a coordinate is outside
\* [dist_min, dist_max] or x1 < x2, and for every point with
\* dist_min <= x2 <= x1 <= dist_max (the upper edge x1 = dist_max included)
\* the normalized weight of the bin whose cell contains the point, never the
\* weight of another bin.
C23_BinPdf ==
    BinPdfCall =>
        /\ OffDomain => prior.out = Fin(0)
        /\ InTriangle => prior.out \in WeightsAtPoint

\* below the upper edge the whole of C23 holds
C23_BelowUpperEdge ==
    (BinPdfCall /\ Lt(prior.args[1], BinDist.dist_max)) => C23_BinPdf

\* on the upper edge the result is the weight of a bin of the row above, or
\* 0 when there is no such bin
C23_UpperEdge ==
    (BinPdfCall /\ InTriangle /\ prior.args[1] = BinDist.dist_max) =>
        prior.out = piecewise(BinDist,
            Add(Fin(BinDist.n_bins_1d),
                compute_flat_position(BinDist,
                    <<Fin(0), FloorDiv(Sub(prior.args[2], BinDist.dist_min),
                                       BinDist.delta_bin_x2)>>)))

\* a positive weight returned inside the domain, and a wrong one on the edge
C23_WitnessInner ==
    /\ BinPdfCall
    /\ InTriangle
    /\ Lt(prior.args[1], BinDist.dist_max)
    /\ Gt(prior.out, Fin(0))

C23_WitnessEdge ==
    /\ BinPdfCall
    /\ InTriangle
    /\ prior.args[1] = BinDist.dist_max
    /\ prior.out \notin WeightsAtPoint
    /\ Gt(prior.out, Fin(0))

(***************************************************************************)
(* C24                                                                     *)
(***************************************************************************)
\* the state holds a massprior_BinModel2d built with n_bins_1d = args[1],
\* right after its constructor or its update
IsBinModel ==
    /\ prior.obj # None
    /\ prior.obj.cls = "massprior_BinModel2d"
    /\ prior.call \in {"init", "update"}

\* bin k lies on the diagonal of the grid
OnDiagonal(n, k) ==
    \E i \in 0..(n - 1) : k = i + n * i - (i * (i + 1)) \div 2

\* the area of the cell of bin k: a square off the diagonal, half of it
\* (a triangle) on the diagonal
CellArea(self, k) ==
    IF OnDiagonal(self.n_bins_1d, k)
    THEN Div(Mul(self.delta_bin_x1, self.delta_bin_x2), Fin(2))
    ELSE Mul(self.delta_bin_x1, self.delta_bin_x2)

\* the sum over the bins of normalized weight times cell area
TotalProbability(self) ==
    SumSeq([k \in 1..self.n_bins |->
               Mul(self.weights_normalized[k], CellArea(self, k - 1))])

\* C24: massprior_BinModel2d(n) declares exactly n (n + 1) / 2 bin
\* parameters, the distribution built from them recovers n_bins_1d = n, and
\* the sum over the bins of normalized weight times cell area is 1, where
\* an off-diagonal bin has area delta^2 and a diagonal bin half of it.
C24_BinModelNormalized ==
    IsBinModel =>
        /\ 2 * Len(prior.obj.bin_parameter_list) = prior.args[1] * (prior.args[1] + 1)
        /\ BinDist # None =>
              /\ BinDist.n_bins = Len(prior.obj.bin_parameter_list)
              /\ BinDist.n_bins_1d = prior.args[1]
              /\ TotalProbability(BinDist) = Fin(1)

\* the largest model, updated with weights that differ from bin to bin
C24_Witness ==
    /\ IsBinModel
    /\ prior.call = "update"
    /\ prior.args[1] = MaxBins1d
    /\ BinDist.weights[1] # BinDist.weights[2]
    /\ BinDist.delta_bin_x1 = Fin(2)
    /\ TotalProbability(BinDist) = Fin(1)

(***************************************************************************)
(* C25                                                                     *)
(***************************************************************************)
\* the state holds a smoothed wrapper and its caller's distribution
IsOwner ==
    /\ prior.obj # None
    /\ prior.obj.cls = "SmoothedOwner"

\* the caller's distribution is no longer what the wrapper was built from
BaseChanged ==
    prior.obj.heap[1] # prior.obj.built.origin_prob

\* C25: a smoothed wrapper owns a frozen copy of its base distribution:
\* after construction no change made to the original base distribution
\* changes any pdf or cdf value the wrapper returns, and the normalization
\* constants and the tabulated cdf are those computed at construction, not
\* changed by any later pdf, cdf or sample call.
C25_WrapperFrozen ==
    IsOwner =>
        /\ Resolve(prior.obj) = prior.obj.built
        /\ prior.call = "wrapper_pdf" =>
              prior.out = xp_exp(log_pdf(prior.obj.built, prior.args[1]))
        /\ prior.call = "wrapper_cdf" =>
              prior.out = xp_exp(log_cdf(prior.obj.built, prior.args[1]))

\* a density asked after the caller changed its distribution, at a point
\* where the two base distributions differ
C25_Witness ==
    /\ IsOwner
    /\ BaseChanged
    /\ prior.call = "wrapper_pdf"
    /\ Gt(prior.out, Fin(0))
    /\ pdf(prior.obj.heap[1], prior.args[1])
       # pdf(prior.obj.built.origin_prob, prior.args[1])

\* the same for the cdf inside a window, read from the table, and for a
\* sample
C25_WitnessTable ==
    /\ IsOwner
    /\ BaseChanged
    /\ prior.call = "wrapper_cdf"
    /\ Gt(prior.args[1], prior.obj.built.bottom)
    /\ Lt(prior.args[1], Add(prior.obj.built.bottom, prior.obj.built.bottom_smooth))
    /\ Gt(prior.out, Fin(0))

C25_WitnessSample ==
    /\ IsOwner
    /\ BaseChanged
    /\ prior.call = "wrapper_sample"
    /\ Gt(prior.out, prior.obj.built.minval)


(***************************************************************************)
(* The spin models of wrappers.py that hold a Beta distribution, each on   *)
(* its own.  A sub-distribution is written as the arguments it was built   *)
(* with, 0 standing for an attribute that was never assigned: a            *)
(* BetaDistribution is <<alpha, beta>>, a TruncatedBetaDistribution        *)
(* <<alpha, beta, maximum>>, the TruncatedGaussian(1, sigma_t, -1, 1) of   *)
(* the tilt angles is sigma_t, and a TruncatedGaussian of the spin         *)
(* magnitude is <<mean, sigma>>.  update gives [sw, raised]: the object    *)
(* left behind and whether ValueError was raised.                          *)
(***************************************************************************)
\* a behaviour of a spin model makes at most MaxSpinCalls calls
MaxSpinCalls ==
    2

spinprior_default_init ==
    [cls |-> "spinprior_default", alpha_chi |-> 0, beta_chi |-> 0, csi_spin |-> 0,
     aligned_pdf |-> 0, beta_pdf |-> NoBeta]

\* spinprior_default.log_pdf
spinprior_default_log_pdf(sw, chi_1, chi_2, cos_t_1, cos_t_2) ==
    CHOOSE out \in
        {AddLog(AddLog(b[1], b[2]),
                logaddexp(AddLog(log1p(Neg(csi)), xp_log(Rat(1, 4))),
                          AddLog(AddLog(xp_log(csi), a[1]), a[2]))) :
            csi \in {Fin(sw.csi_spin)},
            b \in {[i \in 1..2 |->
                      log_pdf(BetaDistribution_init(sw.beta_pdf[1], sw.beta_pdf[2]),
                              <<chi_1, chi_2>>[i])]},
            a \in {[i \in 1..2 |->
                      log_pdf(TruncatedGaussian_init(Fin(1), Fin(sw.aligned_pdf),
                                                     Fin(-1), Fin(1)),
                              <<cos_t_1, cos_t_2>>[i])]}} : TRUE

spinprior_default_beta_window_gaussian_init ==
    [cls |-> "spinprior_default_beta_window_gaussian", alpha_chi |-> 0,
     beta_chi |-> 0, beta_pdf_chi |-> NoBeta, mu_chi |-> 0, sigma_chi |-> 0,
     csi_spin |-> 0, gaussian_pdf_chi |-> <<0, 0>>, mt |-> 0, delta_mt |-> 0,
     mix_f |-> 0, aligned_pdf |-> 0]

\* the test of spinprior_default_beta_window_gaussian.update
spinprior_default_beta_window_gaussian_invalid(sw) ==
    (sw.alpha_chi <= 1) \/ (sw.beta_chi <= 1)

\* spinprior_default_beta_window_gaussian.update: the two shape parameters,
\* then the test, then the Beta distribution and the other attributes
spinprior_default_beta_window_gaussian_update(sw, kwargs) ==
    LET s1 == [sw EXCEPT !.alpha_chi = kwargs.alpha_chi,
                         !.beta_chi = kwargs.beta_chi]
    IN  IF spinprior_default_beta_window_gaussian_invalid(s1)
        THEN [sw |-> s1, raised |-> TRUE]
        ELSE [sw |-> [s1 EXCEPT !.beta_pdf_chi = <<s1.alpha_chi, s1.beta_chi>>,
                                !.mu_chi = kwargs.mu_chi,
                                !.sigma_chi = kwargs.sigma_chi,
                                !.csi_spin = kwargs.csi_spin,
                                !.gaussian_pdf_chi = <<kwargs.mu_chi, kwargs.sigma_chi>>,
                                !.mt = kwargs.mt,
                                !.delta_mt = kwargs.delta_mt,
                                !.mix_f = kwargs.mix_f,
                                !.aligned_pdf = kwargs.sigma_t],
              raised |-> FALSE]

spinprior_default_beta_window_beta_init ==
    [cls |-> "spinprior_default_beta_window_beta", alpha_chi_low |-> 0,
     beta_chi_low |-> 0, alpha_chi_high |-> 0, beta_chi_high |-> 0,
     csi_spin |-> 0, beta_pdf_chi_low |-> NoBeta, beta_pdf_chi_high |-> NoBeta,
     mt |-> 0, delta_mt |-> 0, mix_f |-> 0, aligned_pdf |-> 0]

\* a slip: only the shape parameters of the low-mass Beta are tested
spinprior_default_beta_window_beta_invalid_LowOnly(sw) ==
    (sw.alpha_chi_low <= 1) \/ (sw.beta_chi_low <= 1)

\* the test of spinprior_default_beta_window_beta.update
spinprior_default_beta_window_beta_invalid(sw) ==
    (sw.alpha_chi_low <= 1) \/ (sw.beta_chi_low <= 1)
    \/ (sw.alpha_chi_high <= 1) \/ (sw.beta_chi_high <= 1)

\* spinprior_default_beta_window_beta.update: the four shape parameters and
\* csi_spin, then the test, then the two Beta distributions and the rest
spinprior_default_beta_window_beta_update(sw, kwargs) ==
    LET s1 == [sw EXCEPT !.alpha_chi_low = kwargs.alpha_chi_low,
                         !.beta_chi_low = kwargs.beta_chi_low,
                         !.alpha_chi_high = kwargs.alpha_chi_high,
                         !.beta_chi_high = kwargs.beta_chi_high,
                         !.csi_spin = kwargs.csi_spin]
    IN  IF spinprior_default_beta_window_beta_invalid(s1)
        THEN [sw |-> s1, raised |-> TRUE]
        ELSE [sw |-> [s1 EXCEPT !.beta_pdf_chi_low =
                                    <<s1.alpha_chi_low, s1.beta_chi_low>>,
                                !.beta_pdf_chi_high =
                                    <<s1.alpha_chi_high, s1.beta_chi_high>>,
                                !.mt = kwargs.mt,
                                !.delta_mt = kwargs.delta_mt,
                                !.mix_f = kwargs.mix_f,
                                !.aligned_pdf = kwargs.sigma_t],
              raised |-> FALSE]

\* spinprior_ECOs_totally_reflective.__init__(q)
spinprior_ECOs_totally_reflective_init(q) ==
    [cls |-> "spinprior_ECOs_totally_reflective", q |-> q, alpha_chi |-> 0,
     beta_chi |-> 0, eps |-> 0, f_eco |-> 0, sigma |-> 0, chi_crit |-> 0,
     beta_pdf |-> NoBeta, truncatedbeta_pdf |-> <<0, 0, 0>>,
     truncatedgaussian_pdf |-> <<0, 0>>, lambda_eco |-> 0]

\* get_chi_crit(eps) = pi (1 + q) / (2 |log eps|), kept as the term it is
\* computed from
get_chi_crit(self, eps) ==
    <<"chi_crit", self.q, eps>>

\* the test of spinprior_ECOs_totally_reflective.update
spinprior_ECOs_totally_reflective_invalid(sw) ==
    (sw.alpha_chi <= 1) \/ (sw.beta_chi <= 1)

\* spinprior_ECOs_totally_reflective.update: six attributes, then the test,
\* then the three distributions and lambda_eco = 1 - beta_pdf.cdf(chi_crit),
\* kept as the term it is computed from
spinprior_ECOs_totally_reflective_update(sw, kwargs) ==
    LET s1 == [sw EXCEPT !.alpha_chi = kwargs.alpha_chi,
                         !.beta_chi = kwargs.beta_chi,
                         !.eps = kwargs.eps,
                         !.f_eco = kwargs.f_eco,
                         !.sigma = kwargs.sigma_chi_ECO,
                         !.chi_crit = get_chi_crit(sw, kwargs.eps)]
    IN  IF spinprior_ECOs_totally_reflective_invalid(s1)
        THEN [sw |-> s1, raised |-> TRUE]
        ELSE [sw |-> [s1 EXCEPT !.beta_pdf = <<s1.alpha_chi, s1.beta_chi>>,
                                !.truncatedbeta_pdf =
                                    <<s1.alpha_chi, s1.beta_chi, s1.chi_crit>>,
                                !.truncatedgaussian_pdf = <<s1.chi_crit, s1.sigma>>,
                                !.lambda_eco =
                                    <<"lambda_eco", <<s1.alpha_chi, s1.beta_chi>>,
                                      get_chi_crit(s1, s1.eps)>>],
              raised |-> FALSE]

\* update of the spin model sw
spin_update(sw, kwargs) ==
    CASE sw.cls = "spinprior_default" -> spinprior_default_update(sw, kwargs)
      [] sw.cls = "spinprior_default_beta_window_gaussian" ->
            spinprior_default_beta_window_gaussian_update(sw, kwargs)
      [] sw.cls = "spinprior_default_beta_window_beta" ->
            spinprior_default_beta_window_beta_update(sw, kwargs)
      [] sw.cls = "spinprior_ECOs_totally_reflective" ->
            spinprior_ECOs_totally_reflective_update(sw, kwargs)

SpinModels ==
    {spinprior_default_init, spinprior_default_beta_window_gaussian_init,
     spinprior_default_beta_window_beta_init,
     spinprior_ECOs_totally_reflective_init(1)}

\* the parameters a sampler hands to update: shape parameters on both sides
\* of 1, and two values of what else a density depends on
SpinKwargs(sw) ==
    CASE sw.cls = "spinprior_default" ->
            [alpha_chi : {1, 2, 3}, beta_chi : {1, 2}, sigma_t : {1, 2},
             csi_spin : {0, 1}]
      [] sw.cls = "spinprior_default_beta_window_gaussian" ->
            [mt : {1}, delta_mt : {1}, mix_f : {1, 2}, alpha_chi : {1, 2},
             beta_chi : {1, 2}, mu_chi : {1}, sigma_chi : {1}, sigma_t : {1, 2},
             csi_spin : {1}]
      [] sw.cls = "spinprior_default_beta_window_beta" ->
            [mt : {1}, delta_mt : {1}, mix_f : {1}, alpha_chi_low : {1, 2},
             beta_chi_low : {1, 2}, alpha_chi_high : {1, 2},
             beta_chi_high : {1, 2}, sigma_t : {1}, csi_spin : {0, 1}]
      [] sw.cls = "spinprior_ECOs_totally_reflective" ->
            [alpha_chi : {1, 2}, beta_chi : {1, 2}, eps : {1, 2}, f_eco : {0, 1},
             sigma_chi_ECO : {1}]

\* the points a density of spinprior_default is asked at
SpinPoints ==
    {<<Rat(1, 2), Rat(1, 2), Fin(0), Fin(0)>>, <<Rat(1, 2), Rat(1, 2), Fin(0), Fin(1)>>}

InitSpin ==
    /\ conc = FALSE
    /\ InitObjects(IdleConfig)
    /\ \E sw \in SpinModels : prior = [NoPrior EXCEPT !.obj = sw, !.call = "init"]

\* sw.update(**kwargs): the object is left as update left it, raised or not
SpinUpdate ==
    /\ prior.n < MaxSpinCalls
    /\ \E kwargs \in SpinKwargs(prior.obj) :
          \E r \in {spin_update(prior.obj, kwargs)} :
              prior' = [prior EXCEPT !.obj = r.sw, !.call = "update",
                                     !.args = <<kwargs>>,
                                     !.out = [raised |-> r.raised],
                                     !.n = @ + 1]
    /\ UNCHANGED <<cfg, conc, lik, rate_model, injections,
                   posterior_samples_dict, wk, obs>>

\* sw.log_pdf(chi_1, chi_2, cos_t_1, cos_t_2) once a Beta distribution is there
SpinLogPdf ==
    /\ prior.n < MaxSpinCalls
    /\ prior.obj.cls = "spinprior_default"
    /\ prior.obj.beta_pdf # NoBeta
    /\ \E p \in SpinPoints :
          prior' = [prior EXCEPT !.call = "log_pdf", !.args = p,
                                 !.out = spinprior_default_log_pdf(prior.obj, p[1], p[2],
                                                                   p[3], p[4]),
                                 !.n = @ + 1]
    /\ UNCHANGED <<cfg, conc, lik, rate_model, injections,
                   posterior_samples_dict, wk, obs>>

NextSpin ==
    \/ SpinUpdate
    \/ SpinLogPdf

SpecSpin ==
    InitSpin /\ [][NextSpin]_vars


(***************************************************************************)
(* C26                                                                     *)
(***************************************************************************)
\* the state follows a call of update on a spin model
SpinUpdated ==
    /\ prior.obj # None
    /\ prior.obj.cls \in {sw.cls : sw \in SpinModels}
    /\ prior.call = "update"

\* the Beta shape parameters among the keyword arguments of update
ShapeNames(sw) ==
    IF sw.cls = "spinprior_default_beta_window_beta"
    THEN {"alpha_chi_low", "beta_chi_low", "alpha_chi_high", "beta_chi_high"}
    ELSE {"alpha_chi", "beta_chi"}

\* the attributes of a spin model that hold a Beta distribution
BetaNames(sw) ==
    CASE sw.cls = "spinprior_default" -> {"beta_pdf"}
      [] sw.cls = "spinprior_default_beta_window_gaussian" -> {"beta_pdf_chi"}
      [] sw.cls = "spinprior_default_beta_window_beta" ->
            {"beta_pdf_chi_low", "beta_pdf_chi_high"}
      [] sw.cls = "spinprior_ECOs_totally_reflective" ->
            {"beta_pdf", "truncatedbeta_pdf"}

\* some shape parameter of the call is <= 1
SomeShapeOffends ==
    \E name \in ShapeNames(prior.obj) : prior.args[1][name] <= 1

\* a Beta distribution was built with a shape parameter <= 1
OffendingBeta(b) ==
    /\ b[1] # 0
    /\ (b[1] <= 1) \/ (b[2] <= 1)

\* C26: for every spin model that uses a Beta distribution, update() raises
\* ValueError if and only if some Beta shape parameter alpha or beta is
\* <= 1, and when it raises no BetaDistribution has been built with the
\* offending values.
C26_RaisesIffShapeOffends ==
    SpinUpdated =>
        /\ prior.out.raised <=> SomeShapeOffends
        /\ \A name \in BetaNames(prior.obj) : ~OffendingBeta(prior.obj[name])

\* the second update of a model with two Beta distributions raises for the
\* shape of the high-mass one alone, and the distributions of the first
\* update are still there
C26_Witness ==
    /\ SpinUpdated
    /\ prior.out.raised
    /\ prior.obj.cls = "spinprior_default_beta_window_beta"
    /\ prior.args[1].alpha_chi_low > 1
    /\ prior.args[1].beta_chi_low > 1
    /\ prior.args[1].alpha_chi_high > 1
    /\ prior.args[1].beta_chi_high = 1
    /\ prior.obj.beta_pdf_chi_high = <<2, 2>>

\* an update that does not raise builds the Beta distribution of its shape
\* parameters
C26_WitnessAccepted ==
    /\ SpinUpdated
    /\ ~prior.out.raised
    /\ prior.obj.cls = "spinprior_ECOs_totally_reflective"
    /\ prior.obj.beta_pdf = <<prior.args[1].alpha_chi, prior.args[1].beta_chi>>
    /\ prior.obj.truncatedbeta_pdf[3] = get_chi_crit(prior.obj, prior.args[1].eps)


(***************************************************************************)
(* C27                                                                     *)
(***************************************************************************)
\* the step just taken belongs to worker w
Stepped(w) ==
    wk'[w].loc # wk[w].loc

\* after the step the call of worker w has not gone past the injection gate
UpToInjGate(w) ==
    \A k \in DOMAIN wk'[w].loc.trace :
        wk'[w].loc.trace[k] \in {"rate_update", "inj_update", "inj_gate"}

\* a call with the local variables loc has returned at the injection gate
RejectedAtInjGate(loc) ==
    /\ loc.pc = "returned"
    /\ loc.trace = <<"rate_update", "inj_update", "inj_gate">>

\* the rate model rm and the injection weights inj are those of the
\* parameters p
UpdatedToParameters(rm, inj, p) ==
    /\ rm = rate_model_update(rm, p).rm
    /\ inj = injections_update_weights(cfg.d, inj, rm)

\* C27: an evaluation rejected at the injection gate has already updated the
\* rate model and the injection weights to the current parameters but does
\* not call update_weights on the posterior-sample set: after such a call
\* the posterior-sample weights, sum_weights and likelihood_variance are
\* exactly what the previous evaluation left.
C27_InjGateRejectionLeavesPE ==
    [][\A w \in Workers :
          Stepped(w) =>
              /\ UpToInjGate(w) =>
                    /\ posterior_samples_dict' = posterior_samples_dict
                    /\ \A i \in Instances :
                          lik'[i].likelihood_variance = lik[i].likelihood_variance
              /\ (wk'[w].loc.pc = "returned"
                  /\ wk'[w].loc.ret = RejectValue(lik'[wk'[w].inst].cls)
                  /\ wk'[w].loc.Neff # None
                  /\ InjRejects(wk'[w].loc.Neff, lik'[wk'[w].inst].neffINJ)) =>
                    /\ RejectedAtInjGate(wk'[w].loc)
                    /\ UpdatedToParameters(rate_model'[wk'[w].inst],
                                           injections'[wk'[w].inst],
                                           lik'[wk'[w].inst].parameters)]_vars

\* a call was rejected at the injection gate after an earlier call with
\* other parameters went through: the weights of the posterior samples and
\* the variance are those of the earlier call, not what the current rate
\* model gives
C27_Witness ==
    /\ RejectedAtInjGate(wk[1].loc)
    /\ UpdatedToParameters(rate_model[1], injections[1], lik[1].parameters)
    /\ posterior_samples_dict[1] # NewPosterior
    /\ posterior_samples_dict[1]
       # posterior_update_weights(cfg.d, posterior_samples_dict[1], rate_model[1])
    /\ lik[1].likelihood_variance # None


(***************************************************************************)
(* GaussianEvolving (wrappers.py): two instances in one interpreter, and   *)
(* the dictionary globals() of the module, where update stores what it is  *)
(* given.  A key that was never stored maps to None.                       *)
(***************************************************************************)
\* a behaviour of the two instances makes at most MaxEvolvingCalls calls
MaxEvolvingCalls ==
    2

\* the largest order of the redshift expansion
MaxOrder ==
    1

\* '{}_z{}'.format(variable, i)
par_name(variable, i) ==
    variable \o "_z" \o ToString(i)

\* GaussianEvolving.__init__(order)
GaussianEvolving_init(order) ==
    [cls |-> "GaussianEvolving", order |-> order,
     population_parameters |->
        [i \in 1..(order + 1) |-> par_name("mu", i - 1)]
        \o [i \in 1..(order + 1) |-> par_name("sigma", i - 1)],
     muz |-> None, sigmaz |-> None]

\* the keys update can store
GlobalKeys ==
    {"self." \o par_name(variable, i) : variable \in {"mu", "sigma"}, i \in 0..MaxOrder}

\* globals() when the module is loaded
NoGlobals ==
    [key \in GlobalKeys |-> None]

\* GaussianEvolving.update: globals()['self.%s' % par] = kwargs[par]
GaussianEvolving_update(globals, kwargs) ==
    [key \in GlobalKeys |->
        IF \E par \in DOMAIN kwargs : key = "self." \o par
        THEN kwargs[CHOOSE par \in DOMAIN kwargs : key = "self." \o par]
        ELSE globals[key]]

\* GaussianEvolving.polynomial: the sum of globals()['self.%s' % par] * x ** i
polynomial(globals, expansion_order, x, variable) ==
    SumSeq([k \in 1..(expansion_order + 1) |->
               Mul(globals["self." \o par_name(variable, k - 1)], IntPower(x, k - 1))])

\* polynomial raises KeyError: a parameter was never stored
polynomial_raises(globals, expansion_order, variable) ==
    \E i \in 0..expansion_order : globals["self." \o par_name(variable, i)] = None

\* GaussianEvolving.log_pdf: self.muz, self.sigmaz, and the logarithm of the
\* truncated normal density, kept as the term scipy is asked for
GaussianEvolving_log_pdf(self, globals, m, z) ==
    IF polynomial_raises(globals, self.order, "mu")
    THEN [self |-> self, raised |-> TRUE, out |-> None]
    ELSE IF polynomial_raises(globals, self.order, "sigma")
    THEN [self |-> [self EXCEPT !.muz = polynomial(globals, self.order, z, "mu")],
          raised |-> TRUE, out |-> None]
    ELSE CHOOSE r \in
            {[self |-> [self EXCEPT !.muz = muz, !.sigmaz = sigmaz],
              raised |-> FALSE,
              out |-> [m |-> m,
                       a |-> Div(Sub(Fin(0), muz), sigmaz),
                       b |-> Div(Sub(Add(muz, Mul(Fin(6), muz)), muz), sigmaz),
                       loc |-> muz, scale |-> sigmaz]] :
                muz \in {polynomial(globals, self.order, z, "mu")},
                sigmaz \in {polynomial(globals, self.order, z, "sigma")}} : TRUE

\* the two instances and the globals of their module
EvolvingModules ==
    {[cls |-> "GaussianEvolvingModule", globals |-> NoGlobals,
      self |-> <<GaussianEvolving_init(o[1]), GaussianEvolving_init(o[2])>>] :
        o \in (0..MaxOrder) \X (0..MaxOrder)}

\* the parameters a sampler hands to update of the instance self
EvolvingKwargs(self) ==
    [{self.population_parameters[k] : k \in DOMAIN self.population_parameters}
        -> {Fin(1), Fin(2)}]

InitEvolving ==
    /\ conc = FALSE
    /\ InitObjects(IdleConfig)
    /\ \E mod \in EvolvingModules : prior = [NoPrior EXCEPT !.obj = mod, !.call = "init"]

\* instance i is updated
EvolvingUpdate ==
    /\ prior.n < MaxEvolvingCalls
    /\ \E i \in 1..2 :
          \E kwargs \in EvolvingKwargs(prior.obj.self[i]) :
              prior' = [prior EXCEPT
                           !.obj.globals = GaussianEvolving_update(@, kwargs),
                           !.call = "update", !.args = <<i, kwargs>>,
                           !.out = None, !.n = @ + 1]
    /\ UNCHANGED <<cfg, conc, lik, rate_model, injections,
                   posterior_samples_dict, wk, obs>>

\* instance i is asked for log_pdf(m, z)
EvolvingLogPdf ==
    /\ prior.n < MaxEvolvingCalls
    /\ \E i \in 1..2, z \in {Fin(0), Fin(1)} :
          \E r \in {GaussianEvolving_log_pdf(prior.obj.self[i], prior.obj.globals,
                                             Fin(1), z)} :
              prior' = [prior EXCEPT
                           !.obj.self[i] = r.self,
                           !.call = "log_pdf", !.args = <<i, Fin(1), z>>,
                           !.out = [raised |-> r.raised, value |-> r.out],
                           !.n = @ + 1]
    /\ UNCHANGED <<cfg, conc, lik, rate_model, injections,
                   posterior_samples_dict, wk, obs>>

NextEvolving ==
    \/ EvolvingUpdate
    \/ EvolvingLogPdf

SpecEvolving ==
    InitEvolving /\ [][NextEvolving]_vars

(***************************************************************************)
(* C28                                                                     *)
(***************************************************************************)
\* the parameters instance j of the module mod reads in its next log_pdf
UsedParameters(mod, j) ==
    [k \in DOMAIN mod.self[j].population_parameters |->
        mod.globals["self." \o mod.self[j].population_parameters[k]]]

\* the step is a call of update on instance i
EvolvingUpdated(i) ==
    /\ prior'.call = "update"
    /\ prior'.n = prior.n + 1
    /\ prior'.args[1] = i

\* C28: population models are isolated from each other: for any two model
\* instances (in particular two GaussianEvolving instances), calling
\* update() on one never changes the parameters that the other uses in its
\* next log_pdf evaluation.
C28_InstancesIsolated ==
    [][\A i \in 1..2 :
          EvolvingUpdated(i) =>
              \A j \in (1..2) \ {i} :
                  UsedParameters(prior'.obj, j) = UsedParameters(prior.obj, j)]_vars


(***************************************************************************)
(* C29                                                                     *)
(***************************************************************************)
\* the step is a call of update on a spin model that raised ValueError
SpinUpdateRaised ==
    /\ prior'.call = "update"
    /\ prior'.n = prior.n + 1
    /\ prior'.out.raised

\* the density spinprior_default returns at the points it is asked at
SpinDensities(sw) ==
    [p \in SpinPoints |-> spinprior_default_log_pdf(sw, p[1], p[2], p[3], p[4])]

\* C29: update() of a spin model is all-or-nothing: if it raises ValueError
\* for an invalid Beta shape parameter, every stored parameter and
\* sub-distribution of the model (alpha_chi, beta_chi, csi_spin,
\* aligned_pdf, beta_pdf, ...) is what it was before the call, so a
\* following log_pdf returns what it returned before the failed update.
C29_UpdateAllOrNothing ==
    [][SpinUpdateRaised =>
          /\ prior'.obj = prior.obj
          /\ (prior.obj.cls = "spinprior_default" /\ prior.obj.beta_pdf # NoBeta) =>
                SpinDensities(prior'.obj) = SpinDensities(prior.obj)]_vars

\* the stored parameters may change, the sub-distributions built from the
\* shape parameters never do
C29_BetaKept ==
    [][SpinUpdateRaised =>
          \A name \in BetaNames(prior.obj) : prior'.obj[name] = prior.obj[name]]_vars


(***************************************************************************)
(* conditional_2dimpdf.sample(N), for the uniform variates randomcdf1 and  *)
(* randomcdf2 that np.random.rand(N) returns; both cdfs are inverted on    *)
(* grids of NSample points.                                                *)
(***************************************************************************)
\* the largest number of samples asked for
MaxSamples ==
    2

\* x2samp = np.interp(randomcdf2 * self.pdf2.cdf(x1samp), cdfeval2, sarray2)
conditional_x2samp(self, randomcdf2, x1samp) ==
    CHOOSE x2samp \in
        {[n \in DOMAIN x1samp |->
             interp(Mul(randomcdf2[n], cdf(self.pdf2, x1samp[n])), cdfeval2, sarray2)] :
            sarray2 \in {linspace(self.pdf2.minval, self.pdf2.maxval, NSample)},
            cdfeval2 \in {[i \in 1..NSample |->
                             cdf(self.pdf2,
                                 linspace(self.pdf2.minval, self.pdf2.maxval,
                                          NSample)[i])]}} : TRUE

\* x1samp = np.interp(randomcdf1, cdfeval1, sarray1)
conditional_x1samp(self, randomcdf1) ==
    CHOOSE x1samp \in
        {[n \in DOMAIN randomcdf1 |-> interp(randomcdf1[n], cdfeval1, sarray1)] :
            sarray1 \in {linspace(self.pdf1.minval, self.pdf1.maxval, NSample)},
            cdfeval1 \in {[i \in 1..NSample |->
                             cdf(self.pdf1,
                                 linspace(self.pdf1.minval, self.pdf1.maxval,
                                          NSample)[i])]}} : TRUE

\* conditional_2dimpdf.sample: return x1samp, x2samp
conditional_2dimpdf_sample(self, randomcdf1, randomcdf2) ==
    CHOOSE r \in {[x1samp |-> x1samp,
                   x2samp |-> conditional_x2samp(self, randomcdf2, x1samp)] :
                    x1samp \in {conditional_x1samp(self, randomcdf1)}} : TRUE

\* the pairs to sample from: the cdf of a TruncatedGaussian is tabulated at
\* the standard scores that are multiples of 1/2, where the samples of a
\* uniform pdf1 fall
SamplingConditionals ==
    {c \in Conditionals : c.pdf2.cls = "TruncatedGaussian" => c.pdf1.alpha = 0}

InitSampling ==
    /\ conc = FALSE
    /\ InitObjects(IdleConfig)
    /\ \E o \in SamplingConditionals : prior = [NoPrior EXCEPT !.obj = o, !.call = "init"]

\* sample(N)
ConditionalSample ==
    /\ prior.obj # None
    /\ prior.obj.cls = "conditional_2dimpdf"
    /\ \E N \in 1..MaxSamples :
          \E randomcdf1 \in [1..N -> Uniforms], randomcdf2 \in [1..N -> Uniforms] :
              Called("conditional_sample", <<N, randomcdf1, randomcdf2>>,
                     conditional_2dimpdf_sample(prior.obj, randomcdf1, randomcdf2))

NextSampling ==
    ConditionalSample

SpecSampling ==
    InitSampling /\ [][NextSampling]_vars

(***************************************************************************)
(* C30                                                                     *)
(***************************************************************************)
ConditionalSampled ==
    /\ prior.obj # None
    /\ prior.obj.cls = "conditional_2dimpdf"
    /\ prior.call = "conditional_sample"

\* N values of x1 and N of x2, each in the range of its distribution
SampleInRanges ==
    /\ Len(prior.out.x1samp) = prior.args[1]
    /\ Len(prior.out.x2samp) = prior.args[1]
    /\ \A n \in 1..prior.args[1] :
          /\ WithinBounds(prior.obj.pdf1, prior.out.x1samp[n])
          /\ WithinBounds(prior.obj.pdf2, prior.out.x2samp[n])

\* C30: conditional_2dimpdf.sample(N) returns exactly N pairs (x1,x2) and,
\* for every pair of component distributions pdf1 and pdf2 (including
\* pdf1.minval < pdf2.minval), every returned pair satisfies x2 <= x1 with
\* x1 in [pdf1.minval, pdf1.maxval] and x2 in [pdf2.minval, pdf2.maxval].
C30_SampleOrdered ==
    ConditionalSampled =>
        /\ SampleInRanges
        /\ \A n \in 1..prior.args[1] : Le(prior.out.x2samp[n], prior.out.x1samp[n])

\* the number of pairs and the two ranges are as stated
C30_SampleInRanges ==
    ConditionalSampled => SampleInRanges

\* the pairs are ordered whenever x1 is not below the range of pdf2
C30_OrderedAboveMinimum ==
    ConditionalSampled =>
        \A n \in 1..prior.args[1] :
            Ge(prior.out.x1samp[n], prior.obj.pdf2.minval) =>
                Le(prior.out.x2samp[n], prior.out.x1samp[n])

====
